---- MODULE Spec2Model ----
(***************************************************************************)
(* A model of the package importer (lib/dal/src/pkg/import.rs) and of the  *)
(* action prototypes (lib/dal/src/action_prototype.rs) of the dal crate.   *)
(*                                                                         *)
(* The row store is the variable db: one sequence of rows per table, a     *)
(* row's id being its index, so ids are unique and grow with creation.     *)
(* delete_by_id is the standard model's soft delete: the row stays and     *)
(* stops being visible.  All operations of one behaviour run under one     *)
(* tenancy and one visibility (head).                                      *)
(*                                                                         *)
(* Operations of the code are operators from a store (and a ThingMap) to   *)
(* a result record [db, tm, err, val]; err = Ok unless the code returns    *)
(* Err(..), in which case the caller propagates it as the ? operator does. *)
(***************************************************************************)
EXTENDS Integers, Sequences, FiniteSets, TLC

VARIABLES
    db,         \* the row store, as seen by the context of the calls
    thing_map,  \* change_set_things of the running import_pkg_from_pkg
    imp,        \* the running import: its arguments, locals and position
    txn,        \* the store when the enclosing transaction began
    last        \* the last finished call: its arguments and what it returned

vars == <<db, thing_map, imp, txn, last>>

\* ChangeSetPk::NONE, SchemaVariantId::NONE, ...: the "unset / head" id.
NONE == 0

\* Option::None of an optional string (unique_id, data, name).
NoStr == "<none>"

Ok == "ok"

----------------------------------------------------------------------------
(* Bounds of the model *)

\* How many calls of import_pkg_from_pkg one behaviour makes.
MaxImports == 2

\* The resolution of the clock: creation times are counted in ticks, this
\* many to the second.
TicksPerSecond == 2

\* How many action prototypes the direct callers of ActionPrototype::new
\* create in one behaviour.
MaxPrototypes == 3

----------------------------------------------------------------------------
(* Small helpers on sequences *)

Range(s) == {s[i] : i \in DOMAIN s}

RECURSIVE SeqOfSet(_)
SeqOfSet(S) ==
    IF S = {} THEN <<>>
    ELSE LET m == CHOOSE x \in S : \A y \in S : x <= y
         IN <<m>> \o SeqOfSet(S \ {m})

----------------------------------------------------------------------------
(* The store *)

EmptyDb ==
    [ funcs              |-> <<>>,
      func_arguments     |-> <<>>,
      installed_pkgs     |-> <<>>,
      installed_assets   |-> <<>>,
      schemas            |-> <<>>,
      schema_variants    |-> <<>>,
      props              |-> <<>>,
      sockets            |-> <<>>,
      action_prototypes  |-> <<>>,
      schema_variant_definitions |-> <<>>,
      components         |-> <<>>,
      edges              |-> <<>>,
      change_sets        |-> <<>>,
      func_bindings      |-> <<>>,
      attribute_values   |-> <<>> ]

Res(d, tm, e, v) == [db |-> d, tm |-> tm, err |-> e, val |-> v]

\* id.to_string() of a row: ids of different tables never coincide.
id_string(table, id) == table \o ":" \o ToString(id)

\* serde_json::Value as far as the importer looks at it: its shape, a label
\* for its content and, for an object, the set of its keys.
Json(shape, data, keys) == [json |-> shape, data |-> data, keys |-> keys]

\* Option::None where a value may be given
NoValue == Json("None", NoStr, {})

\* An attribute spec without an array index (index: None)
NoIndex == -1

----------------------------------------------------------------------------
(* ActionPrototype (action_prototype.rs) *)

ActionKind == {"Create", "Delete", "Other", "Refresh"}

\* find_for_context: the visible prototypes of a schema variant.
find_for_context(d, schema_variant_id) ==
    {i \in DOMAIN d.action_prototypes :
        /\ ~d.action_prototypes[i].deleted
        /\ d.action_prototypes[i].schema_variant_id = schema_variant_id}

\* The visible prototypes of a variant that have a kind.
OfKind(d, sv, kind) ==
    {p \in find_for_context(d, sv) : d.action_prototypes[p].kind = kind}

\* A plausible slip: the check is dropped, every kind may repeat.
ActionPrototype_new_unchecked(d, func_id, kind, schema_variant_id) ==
    LET row == [func_id |-> func_id, kind |-> kind, name |-> NoStr,
                schema_variant_id |-> schema_variant_id, deleted |-> FALSE]
    IN Res([d EXCEPT !.action_prototypes = Append(@, row)], <<>>, Ok,
           Len(d.action_prototypes) + 1)

\* ActionPrototype::new
ActionPrototype_new(d, func_id, kind, schema_variant_id) ==
    IF \E p \in find_for_context(d, schema_variant_id) :
            d.action_prototypes[p].kind = kind /\ kind # "Other"
    THEN Res(d, <<>>, "MultipleOfSameKind", NONE)
    ELSE LET row == [func_id |-> func_id, kind |-> kind, name |-> NoStr,
                     schema_variant_id |-> schema_variant_id, deleted |-> FALSE]
         IN Res([d EXCEPT !.action_prototypes = Append(@, row)], <<>>, Ok,
                Len(d.action_prototypes) + 1)

\* The accessor set_kind: writes the column, checks nothing.
set_kind(d, id, kind) ==
    [d EXCEPT !.action_prototypes[id].kind = kind]

\* A plausible slip: the prototype itself counts among those of the kind.
set_kind_checked_self(d, id, kind) ==
    IF \E p \in find_for_context(d, d.action_prototypes[id].schema_variant_id) :
            /\ d.action_prototypes[p].kind = kind
            /\ kind # "Other"
    THEN Res(d, <<>>, "MultipleOfSameKind", NONE)
    ELSE Res(set_kind(d, id, kind), <<>>, Ok, id)

\* ActionPrototype::set_kind_checked
set_kind_checked(d, id, kind) ==
    IF \E p \in find_for_context(d, d.action_prototypes[id].schema_variant_id) :
            /\ d.action_prototypes[p].kind = kind
            /\ kind # "Other"
            /\ p # id
    THEN Res(d, <<>>, "MultipleOfSameKind", NONE)
    ELSE Res(set_kind(d, id, kind), <<>>, Ok, id)

----------------------------------------------------------------------------
(* Content addressing and the ThingMap *)

\* object_tree::Hash of a spec node or of the whole archive: equal contents
\* give equal hashes, different contents different ones.
hash(node) == <<"hash", node>>

NoThing == [kind |-> "None", id |-> NONE]

\* ChangeSetThingMap::get
tm_get(tm, change_set_pk, unique_id) ==
    IF <<change_set_pk, unique_id>> \in DOMAIN tm
    THEN tm[<<change_set_pk, unique_id>>]
    ELSE NoThing

\* ChangeSetThingMap::insert
tm_insert(tm, change_set_pk, unique_id, thing) ==
    [k \in DOMAIN tm \cup {<<change_set_pk, unique_id>>} |->
        IF k = <<change_set_pk, unique_id>> THEN thing ELSE tm[k]]

Thing(kind, id) == [kind |-> kind, id |-> id]

----------------------------------------------------------------------------
(* InstalledPkg and InstalledPkgAsset (the ledger) *)

\* InstalledPkg::find_by_hash(..).is_some()
find_by_hash(d, root_hash) ==
    \E i \in DOMAIN d.installed_pkgs : d.installed_pkgs[i].root_hash = root_hash

\* InstalledPkg::new
InstalledPkg_new(d, name, root_hash) ==
    [d EXCEPT !.installed_pkgs = Append(@, [name |-> name, root_hash |-> root_hash])]

\* InstalledPkgAsset::list_for_kind_and_hash
list_for_kind_and_hash(d, kind, h) ==
    {i \in DOMAIN d.installed_assets :
        d.installed_assets[i].kind = kind /\ d.installed_assets[i].hash = h}

\* .pop() of that list: its last row.
pop(rows) == CHOOSE i \in rows : \A j \in rows : j <= i

\* InstalledPkgAsset::new, written only when the import has an installed_pkg_id
InstalledPkgAsset_new(d, kind, id, installed_pkg_id, h) ==
    IF installed_pkg_id = NONE THEN d
    ELSE [d EXCEPT !.installed_assets =
            Append(@, [kind |-> kind, id |-> id,
                       installed_pkg_id |-> installed_pkg_id, hash |-> h])]

----------------------------------------------------------------------------
(* Funcs *)

\* func::is_intrinsic
IntrinsicNames == {"si:identity", "si:unset"}
is_intrinsic(name) == name \in IntrinsicNames

\* import_change_set, the names it treats like intrinsics
special_case_funcs == {"si:resourcePayloadToValue", "si:normalizeToArray"}

\* Func::get_by_id(..).is_some()
func_visible(d, id) == id \in DOMAIN d.funcs /\ ~d.funcs[id].deleted

\* A plausible slip: every func is taken for an attribute function.
backend_kind_attribute(data) == "JsAttribute"

\* The backend kind of a func.  It is one of the columns that come from the
\* data of the func spec; the code of the model that is an action is w1.
backend_kind(data) == IF data = "w1" THEN "JsAction" ELSE "JsAttribute"

\* The key of a binding: the content hash over (func_id, args, before_funcs)
binding_key(func_id, args, before) ==
    [func_id |-> func_id, args |-> args, before |-> before]

\* The bindings of the store that carry a key
bindings_of(d, key) ==
    {b \in DOMAIN d.func_bindings :
        binding_key(d.func_bindings[b].func_id, d.func_bindings[b].args,
                    d.func_bindings[b].before) = key}

\* What create_and_execute hands back: the binding, its return value and
\* whether the function runtime was invoked for it.
Bound(d, e, binding_id, value, executed) ==
    Res(d, <<>>, e, [binding_id |-> binding_id, value |-> value,
                     executed |-> executed])

\* FuncBinding::create_and_execute(ctx, args, func_id, before).  A binding
\* of the same key that is in the store is returned with its return value,
\* unless the func is an action; otherwise the runtime is invoked, and the
\* binding and what the runtime returned (return_value) are persisted.
create_and_execute(d, args, func_id, before, return_value) ==
    LET execute ==
          Bound([d EXCEPT !.func_bindings =
                     Append(@, [func_id |-> func_id, args |-> args,
                                before |-> before, value |-> return_value])],
                Ok, Len(d.func_bindings) + 1, return_value, TRUE)
        served(hits) ==
          IF hits = {} \/ backend_kind(d.funcs[func_id].data) = "JsAction"
          THEN execute
          ELSE Bound(d, Ok, CHOOSE b \in hits : \A c \in hits : b <= c,
                     d.func_bindings[CHOOSE b \in hits : \A c \in hits : b <= c].value,
                     FALSE)
    IN IF ~func_visible(d, func_id)
       THEN Bound(d, "FuncNotFound", NONE, NoValue, FALSE)
       ELSE served(bindings_of(d, binding_key(func_id, args, before)))

\* Func::find_by_name: the visible funcs of that name
find_by_name(d, name) ==
    {i \in DOMAIN d.funcs : ~d.funcs[i].deleted /\ d.funcs[i].name = name}

\* func.set_builtin(ctx, true) when the import is marked builtin
set_builtin(d, id, is_builtin) ==
    IF is_builtin THEN [d EXCEPT !.funcs[id].builtin = TRUE] ELSE d

\* create_func.  The columns description, display_name, handler, link, hidden,
\* backend kind, response type and code all come from the spec's data and are
\* one value here.
create_func(d, func_spec) ==
    IF func_spec.data = NoStr
    THEN Res(d, <<>>, "DataNotFound", NONE)
    ELSE Res([d EXCEPT !.funcs =
                Append(@, [name |-> func_spec.name, data |-> func_spec.data,
                           builtin |-> FALSE, deleted |-> FALSE])],
             <<>>, Ok, Len(d.funcs) + 1)

\* update_func: name and the data columns are overwritten in place
update_func(d, id, name, data) ==
    [d EXCEPT !.funcs[id].name = name, !.funcs[id].data = data]

\* A plausible slip: the ledger tier is skipped and the ThingMap asked first.
import_func_no_ledger(d, tm, change_set_pk, func_spec, installed_pkg_id, is_builtin) ==
    LET existing == tm_get(tm, change_set_pk, func_spec.unique_id)
        done(d1, id) ==
            LET d2 == set_builtin(d1, id, is_builtin)
                d3 == InstalledPkgAsset_new(d2, "Func", id, installed_pkg_id,
                                            hash(func_spec))
            IN Res(d3, tm_insert(tm, change_set_pk, func_spec.unique_id,
                                 Thing("Func", id)), Ok, id)
    IN IF existing.kind = "Func"
       THEN IF func_spec.deleted
            THEN Res([d EXCEPT !.funcs[existing.id].deleted = TRUE], tm, Ok, NONE)
            ELSE done(IF func_spec.data # NoStr
                      THEN update_func(d, existing.id, func_spec.name, func_spec.data)
                      ELSE d, existing.id)
       ELSE IF func_spec.deleted
            THEN Res(d, tm, Ok, NONE)
            ELSE LET c == create_func(d, func_spec)
                 IN IF c.err # Ok THEN Res(d, tm, c.err, NONE)
                    ELSE done(c.db, c.val)

\* A plausible slip: the asset row is written although the import has no
\* installed package (no_record).
import_func_records_always(d, tm, change_set_pk, func_spec, installed_pkg_id, is_builtin) ==
    LET c == create_func(d, func_spec)
    IN IF func_spec.deleted THEN Res(d, tm, Ok, NONE)
       ELSE IF c.err # Ok THEN Res(d, tm, c.err, NONE)
       ELSE Res([c.db EXCEPT !.installed_assets =
                    Append(@, [kind |-> "Func", id |-> c.val,
                               installed_pkg_id |-> installed_pkg_id,
                               hash |-> hash(func_spec)])],
                tm_insert(tm, change_set_pk, func_spec.unique_id,
                          Thing("Func", c.val)), Ok, c.val)

\* A plausible slip: a deleted spec deletes the funcs of its name, whether
\* the ThingMap has them or not.
import_func_deletes_named(d, tm, change_set_pk, func_spec, installed_pkg_id, is_builtin) ==
    IF func_spec.deleted
    THEN Res([d EXCEPT !.funcs =
                 [i \in DOMAIN @ |->
                     IF @[i].name = func_spec.name
                     THEN [@[i] EXCEPT !.deleted = TRUE] ELSE @[i]]],
             tm, Ok, NONE)
    ELSE import_func_records_always(d, tm, change_set_pk, func_spec,
                                    installed_pkg_id, is_builtin)

\* import_func: val is the id of the returned Func, NONE for Ok(None).
import_func(d, tm, change_set_pk, func_spec, installed_pkg_id, is_builtin) ==
    LET h == hash(func_spec)
        rows == list_for_kind_and_hash(d, "Func", h)
        existing == tm_get(tm, change_set_pk, func_spec.unique_id)
        \* lines 1569-1591: the func resolved by the ThingMap or created
        done(d1, id) ==
            LET d2 == set_builtin(d1, id, is_builtin)
                d3 == InstalledPkgAsset_new(d2, "Func", id, installed_pkg_id, h)
            IN Res(d3, tm_insert(tm, change_set_pk, func_spec.unique_id,
                                 Thing("Func", id)), Ok, id)
    IN IF rows # {}
       THEN LET id == d.installed_assets[pop(rows)].id
            IN IF ~func_visible(d, id)
               THEN Res(d, tm, "InstalledFuncMissing", NONE)
               ELSE LET d2 == set_builtin(d, id, is_builtin)
                        d3 == InstalledPkgAsset_new(d2, "Func", id,
                                                    installed_pkg_id, h)
                    IN Res(d3, tm_insert(tm, change_set_pk, func_spec.unique_id,
                                         Thing("Func", id)), Ok, NONE)
       ELSE IF existing.kind = "Func"
       THEN IF func_spec.deleted
            THEN Res([d EXCEPT !.funcs[existing.id].deleted = TRUE], tm, Ok, NONE)
            ELSE done(IF func_spec.data # NoStr
                      THEN update_func(d, existing.id, func_spec.name, func_spec.data)
                      ELSE d, existing.id)
       ELSE IF func_spec.deleted
            THEN Res(d, tm, Ok, NONE)
            ELSE LET c == create_func(d, func_spec)
                 IN IF c.err # Ok THEN Res(d, tm, c.err, NONE)
                    ELSE done(c.db, c.val)

\* create_func_argument
create_func_argument(d, func_id, arg) ==
    [d EXCEPT !.func_arguments =
        Append(@, [func_id |-> func_id, name |-> arg.name, deleted |-> FALSE])]

\* update_func_argument
update_func_argument(d, id, func_id, arg) ==
    [d EXCEPT !.func_arguments[id].name = arg.name,
              !.func_arguments[id].func_id = func_id]

\* import_func_arguments
RECURSIVE import_func_arguments(_, _, _, _, _)
import_func_arguments(d, tm, change_set_pk, func_id, args) ==
    IF args = <<>> THEN Res(d, tm, Ok, NONE)
    ELSE
      LET arg == Head(args)
          existing == IF arg.unique_id = NoStr THEN NoThing
                      ELSE tm_get(tm, change_set_pk, arg.unique_id)
          new_id == Len(d.func_arguments) + 1
      IN IF arg.unique_id = NoStr
         THEN import_func_arguments(create_func_argument(d, func_id, arg), tm,
                                    change_set_pk, func_id, Tail(args))
         ELSE IF existing.kind = "FuncArgument"
         THEN IF arg.deleted
              THEN import_func_arguments(
                      [d EXCEPT !.func_arguments[existing.id].deleted = TRUE],
                      tm, change_set_pk, func_id, Tail(args))
              ELSE import_func_arguments(
                      update_func_argument(d, existing.id, func_id, arg),
                      tm_insert(tm, change_set_pk, arg.unique_id, existing),
                      change_set_pk, func_id, Tail(args))
         ELSE IF arg.deleted
              THEN import_func_arguments(d, tm, change_set_pk, func_id, Tail(args))
              ELSE import_func_arguments(
                      create_func_argument(d, func_id, arg),
                      tm_insert(tm, change_set_pk, arg.unique_id,
                                Thing("FuncArgument", new_id)),
                      change_set_pk, func_id, Tail(args))

\* import_change_set, lines 147-151 and 196-202: the arguments are imported
\* only for a func that import_func returned.
with_arguments(r, change_set_pk, func_spec) ==
    IF r.err # Ok \/ r.val = NONE \/ func_spec.arguments = <<>> THEN r
    ELSE LET a == import_func_arguments(r.db, r.tm, change_set_pk, r.val,
                                        func_spec.arguments)
         IN Res(a.db, a.tm, a.err, r.val)

\* A plausible slip: a builtin found by name is not reused but imported
\* like any other func.
import_func_spec_ignores_name(d, tm, change_set_pk, func_spec, found, installed_pkg_id, options) ==
    with_arguments(import_func(d, tm, change_set_pk, func_spec, installed_pkg_id,
                               options.is_builtin),
                   change_set_pk, func_spec)

\* import_change_set, lines 103-204: one round of the loop over the func
\* specs.  found is what Func::find_by_name returned (NONE: no such func).
import_func_spec(d, tm, change_set_pk, func_spec, found, installed_pkg_id, options) ==
    IF \/ is_intrinsic(func_spec.name)
       \/ func_spec.name \in special_case_funcs
       \/ func_spec.is_from_builtin
    THEN IF found # NONE /\ func_spec.data # NoStr
         THEN Res([d EXCEPT !.funcs[found].data = func_spec.data],
                  tm_insert(tm, change_set_pk, func_spec.unique_id,
                            Thing("Func", found)), Ok, NONE)
         ELSE with_arguments(
                 import_func(d, tm, change_set_pk, func_spec, installed_pkg_id,
                             options.is_builtin),
                 change_set_pk, func_spec)
    ELSE IF func_spec.unique_id \in DOMAIN options.skip_import_funcs
    THEN LET func_id == options.skip_import_funcs[func_spec.unique_id]
         IN Res(InstalledPkgAsset_new(d, "Func", func_id, installed_pkg_id,
                                      hash(func_spec)),
                tm_insert(tm, change_set_pk, func_spec.unique_id,
                          Thing("Func", func_id)), Ok, NONE)
    ELSE with_arguments(
            import_func(d, tm, change_set_pk, func_spec, installed_pkg_id,
                        options.is_builtin),
            change_set_pk, func_spec)

----------------------------------------------------------------------------
(* str::to_lowercase on the names the packages of the model use *)

LowerCase == [Widget |-> "widget", Gadget |-> "gadget"]

to_lowercase(name) == IF name \in DOMAIN LowerCase THEN LowerCase[name] ELSE name

----------------------------------------------------------------------------
(* Folding a fallible step over the items of a spec, as a for loop whose
   body ends in `?` does: the first error ends the loop. *)

RECURSIVE ForEach(_, _, _)
ForEach(step(_, _), r, items) ==
    IF r.err # Ok \/ items = <<>> THEN r
    ELSE ForEach(step, step(r, Head(items)), Tail(items))

----------------------------------------------------------------------------
(* Props and schema variants *)

\* The result r with another value.
with_val(r, v) == Res(r.db, r.tm, r.err, v)

PropRow(schema_variant_id, path, kind, has_value) ==
    [schema_variant_id |-> schema_variant_id, path |-> path, kind |-> kind,
     default_value |-> NoStr, func_id |-> NONE, has_value |-> has_value,
     parent_prop_id |-> NONE]

\* Prop::find_prop_by_path_opt: NONE when the variant has no prop at the path
find_prop_by_path_opt(d, schema_variant_id, path) ==
    LET least(hits) == IF hits = {} THEN NONE
                       ELSE CHOOSE i \in hits : \A j \in hits : i <= j
    IN least({i \in DOMAIN d.props :
                /\ d.props[i].schema_variant_id = schema_variant_id
                /\ d.props[i].path = path})

\* Prop::new and Prop::new_without_ui_optionals: a prop of a name and kind
\* under a parent, NONE for none; its path is the path of the parent and
\* its name.  val is the id of the prop.
Prop_new(d, name, kind, schema_variant_id, parent_prop_id) ==
    Res([d EXCEPT !.props =
            Append(@, [PropRow(schema_variant_id,
                               IF parent_prop_id = NONE THEN name
                               ELSE d.props[parent_prop_id].path \o "/" \o name,
                               kind, FALSE)
                       EXCEPT !.parent_prop_id = parent_prop_id])],
        <<>>, Ok, Len(d.props) + 1)

\* The props made one after the other under one parent, each given by its
\* name and kind; val is kept.
new_children(r, schema_variant_id, parent_prop_id, children) ==
    ForEach(LAMBDA r1, child :
                with_val(Prop_new(r1.db, child[1], child[2], schema_variant_id,
                                  parent_prop_id), r1.val),
            r, children)

\* SchemaVariant::create_default_prototypes_and_values: the props of the
\* variant that have no prototype and value get them.
create_default_prototypes_and_values(d, schema_variant_id) ==
    [d EXCEPT !.props = [i \in DOMAIN @ |->
                            IF @[i].schema_variant_id = schema_variant_id
                            THEN [@[i] EXCEPT !.has_value = TRUE] ELSE @[i]]]

\* LeafKind::prop_names: the names of the map of a leaf kind and of its item
leaf_prop_names(leaf_kind) ==
    IF leaf_kind = "CodeGeneration" THEN <<"code", "codeItem">>
    ELSE <<"qualification", "qualificationItem">>

\* A plausible slip: the item of the map is made under the root, next to
\* the map.
insert_leaf_props_beside(d, leaf_kind, root_prop_id, schema_variant_id) ==
    Prop_new(Prop_new(d, leaf_prop_names(leaf_kind)[1], "Map",
                      schema_variant_id, root_prop_id).db,
             leaf_prop_names(leaf_kind)[2], "Object", schema_variant_id,
             root_prop_id)

\* SchemaVariant::insert_leaf_props: the map of a leaf kind under the root
\* and the item of the map under it.  val is the id of the item; the map is
\* the prop before it.
insert_leaf_props(d, leaf_kind, root_prop_id, schema_variant_id) ==
    Prop_new(Prop_new(d, leaf_prop_names(leaf_kind)[1], "Map",
                      schema_variant_id, root_prop_id).db,
             leaf_prop_names(leaf_kind)[2], "Object", schema_variant_id,
             Len(d.props) + 1)

\* SchemaVariant::setup_si
setup_si(d, root_prop_id, schema_variant_id) ==
    new_children(Prop_new(d, "si", "Object", schema_variant_id, root_prop_id),
                 schema_variant_id, Len(d.props) + 1,
                 << <<"name", "String">>, <<"protected", "Boolean">>,
                    <<"type", "String">>, <<"color", "String">> >>)

\* SchemaVariant::setup_resource
setup_resource(d, root_prop_id, schema_variant_id) ==
    LET logs(r) ==
          new_children(r, schema_variant_id, Len(r.db.props),
                       << <<"log", "String">> >>)
        rest(r) ==
          new_children(r, schema_variant_id, r.val,
                       << <<"payload", "String">>, <<"last_synced", "String">> >>)
    IN rest(logs(new_children(
           Prop_new(d, "resource", "Object", schema_variant_id, root_prop_id),
           schema_variant_id, Len(d.props) + 1,
           << <<"status", "String">>, <<"message", "String">>,
              <<"logs", "Array">> >>)))

\* SchemaVariant::setup_resource_value.  The workspace of the model has no
\* func si:defaultReconciliation, so no reconciliation prototype is made.
setup_resource_value(d, root_prop_id, schema_variant_id) ==
    LET made(r) ==
          Res(create_default_prototypes_and_values(r.db, schema_variant_id),
              <<>>, Ok, r.val)
    IN made(Prop_new(d, "resource_value", "Object", schema_variant_id,
                     root_prop_id))

\* SchemaVariant::setup_code
setup_code(d, root_prop_id, schema_variant_id) ==
    LET children(r) ==
          with_val(new_children(r, schema_variant_id, r.val,
                       << <<"code", "String">>, <<"message", "String">>,
                          <<"format", "String">> >>),
                   r.val - 1)
    IN children(insert_leaf_props(d, "CodeGeneration", root_prop_id,
                                  schema_variant_id))

\* SchemaVariant::setup_qualification
setup_qualification(d, root_prop_id, schema_variant_id) ==
    LET children(r) ==
          with_val(new_children(r, schema_variant_id, r.val,
                       << <<"result", "String">>, <<"message", "String">> >>),
                   r.val - 1)
    IN children(insert_leaf_props(d, "Qualification", root_prop_id,
                                  schema_variant_id))

\* SchemaVariant::setup_deleted_at
setup_deleted_at(d, root_prop_id, schema_variant_id) ==
    Prop_new(d, "deleted_at", "String", schema_variant_id, root_prop_id)

\* SchemaVariant::create_and_set_root_prop: the root prop is made and set on
\* the variant, then the trees under it, si before domain; at the end the
\* props get their default prototypes and values.  val is the RootProp.
create_and_set_root_prop(d, schema_variant_id) ==
    LET root_prop_id == Len(d.props) + 1
        deleted_at(r, root_prop) ==
          Res(create_default_prototypes_and_values(r.db, schema_variant_id),
              <<>>, Ok, [root_prop EXCEPT !.deleted_at_prop_id = r.val])
        qualification(r, root_prop) ==
          deleted_at(setup_deleted_at(r.db, root_prop_id, schema_variant_id),
                     [root_prop EXCEPT !.qualification_prop_id = r.val])
        code(r, root_prop) ==
          qualification(setup_qualification(r.db, root_prop_id, schema_variant_id),
                        [root_prop EXCEPT !.code_prop_id = r.val])
        resource_value(r, root_prop) ==
          code(setup_code(r.db, root_prop_id, schema_variant_id),
               [root_prop EXCEPT !.resource_value_prop_id = r.val])
        resource(r, root_prop) ==
          resource_value(setup_resource_value(r.db, root_prop_id, schema_variant_id),
                         [root_prop EXCEPT !.resource_prop_id = r.val])
        secrets(r, root_prop) ==
          resource(setup_resource(r.db, root_prop_id, schema_variant_id),
                   [root_prop EXCEPT !.secrets_prop_id = r.val])
        domain(r, root_prop) ==
          secrets(Prop_new(r.db, "secrets", "Object", schema_variant_id, root_prop_id),
                  [root_prop EXCEPT !.domain_prop_id = r.val])
        si(r, root_prop) ==
          domain(Prop_new(r.db, "domain", "Object", schema_variant_id, root_prop_id),
                 [root_prop EXCEPT !.si_prop_id = r.val])
        root(r) ==
          si(setup_si([r.db EXCEPT
                          !.schema_variants[schema_variant_id].root_prop_id = r.val],
                      root_prop_id, schema_variant_id),
             [prop_id |-> root_prop_id, si_prop_id |-> NONE,
              domain_prop_id |-> NONE, resource_prop_id |-> NONE,
              secrets_prop_id |-> NONE, resource_value_prop_id |-> NONE,
              code_prop_id |-> NONE, qualification_prop_id |-> NONE,
              deleted_at_prop_id |-> NONE])
    IN root(Prop_new(d, "root", "Object", schema_variant_id, NONE))

\* The props every variant starts with (path, kind), in creation order
RootPropTree ==
    LET props == create_and_set_root_prop(
                     [EmptyDb EXCEPT !.schema_variants =
                         <<[root_prop_id |-> NONE]>>], 1).db.props
    IN [i \in DOMAIN props |-> <<props[i].path, props[i].kind>>]

\* SchemaVariant::new: the variant row and its root prop tree, whose
\* prototypes and values exist from the start.  A variant is builtin when
\* the import that creates it is (it runs in the builtin tenancy).
SchemaVariant_new(d, schema_id, name, builtin) ==
    LET made(r, id) == Res(r.db, <<>>, Ok, id)
        make(id) ==
          made(create_and_set_root_prop(
                   [d EXCEPT !.schema_variants =
                       Append(@, [schema_id |-> schema_id, name |-> name,
                                  deleted |-> FALSE, builtin |-> builtin,
                                  pkg_created_at |-> NONE, finalized |-> FALSE,
                                  root_prop_id |-> NONE])],
                   id), id)
    IN make(Len(d.schema_variants) + 1)

\* SchemaVariant::finalize: every prop of the variant gets its default
\* prototype and value.
finalize(d, schema_variant_id) ==
    [d EXCEPT !.schema_variants[schema_variant_id].finalized = TRUE,
              !.props = [i \in DOMAIN @ |->
                            IF @[i].schema_variant_id = schema_variant_id
                            THEN [@[i] EXCEPT !.has_value = TRUE] ELSE @[i]]]

\* update_schema_variant
update_schema_variant(d, id, name, schema_id) ==
    [d EXCEPT !.schema_variants[id].schema_id = schema_id,
              !.schema_variants[id].name = name]

\* The deferred side effects of a prop-tree walk (CreatePropsSideEffects).
NoSideEffects == [attr_funcs |-> <<>>, default_values |-> <<>>]

\* A plausible slip: the variant is not asked for the prop at the path.
prop_at_path_none(d, schema_variant_id, path) == NONE

\* create_prop, line 3298: the prop the variant has at the path of the spec
prop_at_path(d, schema_variant_id, path) ==
    find_prop_by_path_opt(d, schema_variant_id, path)

\* create_prop for a direct child of root/domain; val carries the queues.
create_prop(r, schema_variant_id, parent_path, spec) ==
    LET at(path, found, prop_id) ==
          IF found = NONE /\ ~spec.data
          THEN Res(r.db, r.tm, "DataNotFound", r.val)
          ELSE Res(IF found = NONE
                   THEN [r.db EXCEPT !.props =
                           Append(@, [PropRow(schema_variant_id, path,
                                              spec.kind, FALSE)
                                      EXCEPT !.parent_prop_id =
                                         find_prop_by_path_opt(r.db,
                                             schema_variant_id, parent_path)])]
                   ELSE r.db,
                   r.tm, Ok,
                   [attr_funcs |-> r.val.attr_funcs \o
                        (IF spec.data /\ spec.func_unique_id # NoStr
                         THEN <<[prop_id |-> prop_id,
                                 func_unique_id |-> spec.func_unique_id]>>
                         ELSE <<>>),
                    default_values |-> r.val.default_values \o
                        (IF /\ spec.data /\ spec.kind = "String"
                            /\ spec.default_value # NoStr
                         THEN <<[prop_id |-> prop_id,
                                 default_value |-> spec.default_value]>>
                         ELSE <<>>)])
        look(path, found) ==
          at(path, found, IF found = NONE THEN Len(r.db.props) + 1 ELSE found)
        walk(path) == look(path, prop_at_path(r.db, schema_variant_id, path))
    IN walk(parent_path \o "/" \o spec.name)

\* create_props: the walk of the props under one of the variant's roots
create_props(d, tm, schema_variant_id, parent_path, prop_specs) ==
    ForEach(LAMBDA r, spec : create_prop(r, schema_variant_id, parent_path, spec),
            Res(d, tm, Ok, NoSideEffects), prop_specs)

\* A plausible slip: the default value is not written.
set_default_value_dropped(r, info, set_func_id) == r

\* set_default_value -> Prop::set_default_value: the value is written through
\* the prop's attribute value, whose prototype then has the set-value func.
set_default_value(r, info, set_func_id) ==
    IF ~r.db.props[info.prop_id].has_value
    THEN Res(r.db, r.tm, "AttributeValueNotFound", r.val)
    ELSE Res([r.db EXCEPT !.props[info.prop_id].default_value = info.default_value,
                          !.props[info.prop_id].func_id = set_func_id],
             r.tm, Ok, r.val)

\* import_attr_func_for_prop with no inputs: the prototype of the prop gets
\* the func the spec names.
import_attr_func_for_prop(r, change_set_pk, info) ==
    LET wire(func) ==
          IF func.kind # "Func"
          THEN Res(r.db, r.tm, "MissingFuncUniqueId", r.val)
          ELSE IF ~r.db.props[info.prop_id].has_value
          THEN Res(r.db, r.tm, "AttributeValueMissing", r.val)
          ELSE Res([r.db EXCEPT !.props[info.prop_id].func_id = func.id],
                   r.tm, Ok, r.val)
    IN wire(tm_get(r.tm, change_set_pk, info.func_unique_id))

\* The one visible func of a name the importer relies on, NONE without one.
func_by_name(d, name) ==
    LET least(hits) == IF hits = {} THEN NONE
                       ELSE CHOOSE i \in hits : \A j \in hits : i <= j
    IN least(find_by_name(d, name))

\* FuncArgument::find_by_name_for_func(..).is_some()
has_func_argument(d, name, func_id) ==
    \E i \in DOMAIN d.func_arguments :
        /\ ~d.func_arguments[i].deleted
        /\ d.func_arguments[i].func_id = func_id
        /\ d.func_arguments[i].name = name

\* attach_resource_payload_to_value
attach_resource_payload_to_value(r, schema_variant_id) ==
    LET attach(func_id) ==
          IF func_id = NONE THEN Res(r.db, r.tm, "FuncNotFoundByName", r.val)
          ELSE IF ~has_func_argument(r.db, "payload", func_id)
          THEN Res(r.db, r.tm, "FuncArgumentNotFoundByNameForFunc", r.val)
          ELSE Res([r.db EXCEPT
                      !.props[find_prop_by_path_opt(r.db, schema_variant_id,
                                  "root/resource_value")].func_id = func_id],
                   r.tm, Ok, r.val)
    IN attach(func_by_name(r.db, "si:resourcePayloadToValue"))

----------------------------------------------------------------------------
(* Sockets *)

\* What get_identity_func hands back of a binding: the func is named too.
of_func(bound, func_id) ==
    [bound EXCEPT !.val = [func_id |-> func_id, binding_id |-> @.binding_id,
                           value |-> @.value, executed |-> @.executed]]

\* A plausible slip: the argument of the identity function carries the
\* number of the socket that is being made.
get_identity_func_per_socket(d) ==
    LET argument(func_id, bound) ==
          IF bound.err = Ok /\ ~has_func_argument(d, "identity", func_id)
          THEN Res(d, <<>>, "MissingIntrinsicFuncArgument", NONE)
          ELSE of_func(bound, func_id)
        bind(func_id) ==
          IF func_id = NONE THEN Res(d, <<>>, "FuncNotFoundByName", NONE)
          ELSE argument(func_id,
                   create_and_execute(d,
                       Json("Object", id_string("socket", Len(d.sockets) + 1),
                            {"identity"}),
                       func_id, <<>>, Json("Null", "null", {})))
    IN bind(func_by_name(d, "si:identity"))

\* get_identity_func: si:identity is bound to the argument {identity: null}
\* and executed, which returns null; then its argument is looked up.
get_identity_func(d) ==
    LET argument(func_id, bound) ==
          IF bound.err = Ok /\ ~has_func_argument(d, "identity", func_id)
          THEN Res(d, <<>>, "MissingIntrinsicFuncArgument", NONE)
          ELSE of_func(bound, func_id)
        bind(func_id) ==
          IF func_id = NONE THEN Res(d, <<>>, "FuncNotFoundByName", NONE)
          ELSE argument(func_id,
                   create_and_execute(d, Json("Object", "null", {"identity"}),
                                      func_id, <<>>, Json("Null", "null", {})))
    IN bind(func_by_name(d, "si:identity"))

\* create_socket: get_identity_func, then the provider and its socket
create_socket(d, data, schema_variant_id) ==
    LET make(identity) ==
          IF identity.err # Ok THEN Res(d, <<>>, identity.err, NONE)
          ELSE Res([identity.db EXCEPT !.sockets =
                       Append(@, [schema_variant_id |-> schema_variant_id,
                                  name |-> data.name, kind |-> data.kind,
                                  func_id |-> identity.val.func_id])],
                   <<>>, Ok, Len(d.sockets) + 1)
    IN make(get_identity_func(d))

\* import_socket (a socket spec of the model names no attribute function)
import_socket(r, change_set_pk, socket_spec, schema_variant_id) ==
    LET put(tm, id) == IF socket_spec.unique_id = NoStr THEN tm
                       ELSE tm_insert(tm, change_set_pk, socket_spec.unique_id,
                                      Thing("Socket", id))
        created(c) == IF c.err # Ok THEN Res(r.db, r.tm, c.err, r.val)
                      ELSE Res(c.db, put(r.tm, c.val), Ok, r.val)
        resolve(existing) ==
          IF existing.kind = "Socket"
          THEN Res(r.db, put(r.tm, existing.id), Ok, r.val)
          ELSE IF ~socket_spec.data THEN Res(r.db, r.tm, "DataNotFound", r.val)
          ELSE created(create_socket(r.db, socket_spec, schema_variant_id))
    IN resolve(IF socket_spec.unique_id = NoStr THEN NoThing
               ELSE tm_get(r.tm, change_set_pk, socket_spec.unique_id))

----------------------------------------------------------------------------
(* Action prototypes of a variant spec *)

\* create_action_prototype
create_action_prototype(d, action_func_spec, func_id, schema_variant_id) ==
    LET named(n) ==
          IF n.err # Ok THEN n
          ELSE Res([n.db EXCEPT !.action_prototypes[n.val].name =
                                    action_func_spec.name], <<>>, Ok, n.val)
    IN named(ActionPrototype_new(d, func_id, action_func_spec.kind,
                                 schema_variant_id))

\* update_action_prototype: the four columns are written by the plain
\* accessors set_schema_variant_id, set_name, set_func_id and set_kind.
update_action_prototype(d, id, action_func_spec, func_id, schema_variant_id) ==
    set_kind([d EXCEPT !.action_prototypes[id].schema_variant_id = schema_variant_id,
                       !.action_prototypes[id].name = action_func_spec.name,
                       !.action_prototypes[id].func_id = func_id],
             id, action_func_spec.kind)

\* import_action_func, and import_schema_variant lines 2661-2667 which put the
\* returned prototype into the ThingMap.
import_action_func(r, change_set_pk, action_func_spec, schema_variant_id) ==
    LET put(tm, id) == IF action_func_spec.unique_id = NoStr THEN tm
                       ELSE tm_insert(tm, change_set_pk, action_func_spec.unique_id,
                                      Thing("ActionPrototype", id))
        created(c) == IF c.err # Ok THEN Res(r.db, r.tm, c.err, r.val)
                      ELSE Res(c.db, put(r.tm, c.val), Ok, r.val)
        resolve(func, existing) ==
          IF func.kind # "Func"
          THEN Res(r.db, r.tm, "MissingFuncUniqueId", r.val)
          ELSE IF existing.kind = "ActionPrototype"
          THEN IF action_func_spec.deleted
               THEN Res([r.db EXCEPT !.action_prototypes[existing.id].deleted = TRUE],
                        put(r.tm, existing.id), Ok, r.val)
               ELSE Res(update_action_prototype(r.db, existing.id, action_func_spec,
                                                func.id, schema_variant_id),
                        put(r.tm, existing.id), Ok, r.val)
          ELSE IF action_func_spec.unique_id # NoStr /\ action_func_spec.deleted
          THEN Res(r.db, r.tm, Ok, r.val)
          ELSE created(create_action_prototype(r.db, action_func_spec, func.id,
                                               schema_variant_id))
    IN resolve(tm_get(r.tm, change_set_pk, action_func_spec.func_unique_id),
               IF action_func_spec.unique_id = NoStr THEN NoThing
               ELSE tm_get(r.tm, change_set_pk, action_func_spec.unique_id))

----------------------------------------------------------------------------
(* Schemas and schema variants of a package *)

\* SchemaVariant::get_by_id(..).is_some()
variant_visible(d, id) ==
    id \in DOMAIN d.schema_variants /\ ~d.schema_variants[id].deleted

\* Schema::get_by_id(..).is_some()
schema_visible(d, id) == id \in DOMAIN d.schemas /\ ~d.schemas[id].deleted

\* A plausible slip: the props get their prototypes and values, and the
\* variant is not marked as finalized.
finalize_if_data_values_only(r, id, variant_spec) ==
    IF r.err # Ok \/ ~variant_spec.data THEN r
    ELSE Res([r.db EXCEPT !.props =
                 [i \in DOMAIN @ |->
                     IF @[i].schema_variant_id = id
                     THEN [@[i] EXCEPT !.has_value = TRUE] ELSE @[i]]],
             r.tm, Ok, r.val)

\* import_schema_variant, lines 2645-2649
finalize_if_data(r, id, variant_spec) ==
    IF r.err # Ok \/ ~variant_spec.data THEN r
    ELSE Res(finalize(r.db, id), r.tm, Ok, r.val)

\* import_schema_variant, lines 2706-2710: the queued default values
flush_default_values(r) ==
    ForEach(LAMBDA q, dv :
                set_default_value(q, dv, func_by_name(q.db, "si:setString")),
            r, r.val.default_values)

\* import_schema_variant, lines 2712-2724: the default of root/si/name
set_name_default(r, id) ==
    IF r.err # Ok THEN r
    ELSE set_default_value(r,
            [prop_id |-> find_prop_by_path_opt(r.db, id, "root/si/name"),
             default_value |-> to_lowercase(
                r.db.schemas[r.db.schema_variants[id].schema_id].name)],
            func_by_name(r.db, "si:setString"))

\* import_schema_variant, lines 2726-2774: a function of the spec for a prop
\* of the root prop tree (si_prop_funcs and root_prop_funcs)
import_root_attr_func(r, change_set_pk, id, func_spec) ==
    LET wire(prop) ==
          IF prop = NONE THEN Res(r.db, r.tm, "PropNotFoundAtPath", r.val)
          ELSE import_attr_func_for_prop(r, change_set_pk,
                  [prop_id |-> prop, func_unique_id |-> func_spec.func_unique_id])
    IN wire(find_prop_by_path_opt(r.db, id, func_spec.path))

\* A plausible slip: the attribute functions are wired first and the queued
\* default values are applied after them.
import_schema_variant_body_funcs_first(d, tm, change_set_pk, id, variant_spec) ==
    LET props == create_props(d, tm, id, "root/domain", variant_spec.props)
        actions(r) == ForEach(LAMBDA q, a : import_action_func(q, change_set_pk, a, id),
                              r, variant_spec.action_funcs)
        sockets(r) == ForEach(LAMBDA q, sock : import_socket(q, change_set_pk, sock, id),
                              r, variant_spec.sockets)
        root_funcs(r) ==
            ForEach(LAMBDA q, f : import_root_attr_func(q, change_set_pk, id, f),
                    r, variant_spec.si_prop_funcs \o variant_spec.root_prop_funcs)
        attach(r) == IF r.err # Ok THEN r
                     ELSE IF \E k \in DOMAIN variant_spec.root_prop_funcs :
                               variant_spec.root_prop_funcs[k].path
                                   = "root/resource_value"
                     THEN r
                     ELSE attach_resource_payload_to_value(r, id)
        attr_funcs(r) ==
            ForEach(LAMBDA q, af : import_attr_func_for_prop(q, change_set_pk, af),
                    r, r.val.attr_funcs)
    IN set_name_default(flush_default_values(attr_funcs(attach(root_funcs(
            sockets(actions(finalize_if_data(props, id, variant_spec))))))), id)

\* import_schema_variant, lines 2564-2802: what is done to a resolved variant
import_schema_variant_body(d, tm, change_set_pk, id, variant_spec) ==
    LET props == create_props(d, tm, id, "root/domain", variant_spec.props)
        actions(r) == ForEach(LAMBDA q, a : import_action_func(q, change_set_pk, a, id),
                              r, variant_spec.action_funcs)
        sockets(r) == ForEach(LAMBDA q, sock : import_socket(q, change_set_pk, sock, id),
                              r, variant_spec.sockets)
        \* lines 2726-2774: si_prop_funcs, then root_prop_funcs
        root_funcs(r) ==
            ForEach(LAMBDA q, f : import_root_attr_func(q, change_set_pk, id, f),
                    r, variant_spec.si_prop_funcs \o variant_spec.root_prop_funcs)
        \* lines 2775-2777: unless a root prop func is for root/resource_value
        attach(r) == IF r.err # Ok THEN r
                     ELSE IF \E k \in DOMAIN variant_spec.root_prop_funcs :
                               variant_spec.root_prop_funcs[k].path
                                   = "root/resource_value"
                     THEN r
                     ELSE attach_resource_payload_to_value(r, id)
        attr_funcs(r) ==
            ForEach(LAMBDA q, af : import_attr_func_for_prop(q, change_set_pk, af),
                    r, r.val.attr_funcs)
    IN attr_funcs(attach(root_funcs(set_name_default(flush_default_values(
            sockets(actions(finalize_if_data(props, id, variant_spec)))), id))))

\* import_schema_variant, lines 2472-2527: the variant the spec resolves to,
\* as [go, db, id]; go is FALSE for a variant that is None.
resolve_schema_variant(d, tm, change_set_pk, schema_id, variant_spec, metadata) ==
    LET installed(id) == [go |-> variant_visible(d, id), db |-> d, id |-> id]
        updated(d1, id) ==
            IF variant_spec.deleted
            THEN [go |-> FALSE, id |-> id,
                  db |-> [d1 EXCEPT !.schema_variants[id].deleted = TRUE]]
            ELSE [go |-> TRUE, db |-> d1, id |-> id]
        created(n) ==
            [go |-> TRUE, id |-> n.val,
             db |-> IF metadata.kind = "Module"
                    THEN [n.db EXCEPT !.schema_variants[n.val].pkg_created_at =
                                         metadata.created_at]
                    ELSE n.db]
        lookup(rows, existing) ==
            IF rows # {} THEN installed(d.installed_assets[pop(rows)].id)
            ELSE IF existing.kind = "SchemaVariant"
            THEN updated(update_schema_variant(d, existing.id, variant_spec.name,
                                               schema_id), existing.id)
            ELSE IF variant_spec.deleted
            THEN [go |-> FALSE, db |-> d, id |-> NONE]
            ELSE created(SchemaVariant_new(d, schema_id, variant_spec.name,
                                           metadata.builtin_ctx))
    IN lookup(list_for_kind_and_hash(d, "SchemaVariant", hash(variant_spec)),
              IF variant_spec.unique_id = NoStr THEN NoThing
              ELSE tm_get(tm, change_set_pk, variant_spec.unique_id))

\* import_schema_variant: val is the id of the returned variant, NONE for
\* Ok(None).
import_schema_variant(d, tm, change_set_pk, schema_id, variant_spec, installed_pkg_id, metadata) ==
    LET build(p) ==
          IF ~p.go THEN Res(p.db, tm, Ok, NONE)
          ELSE with_val(
                 import_schema_variant_body(
                    InstalledPkgAsset_new(p.db, "SchemaVariant", p.id,
                                          installed_pkg_id, hash(variant_spec)),
                    IF variant_spec.unique_id = NoStr THEN tm
                    ELSE tm_insert(tm, change_set_pk, variant_spec.unique_id,
                                   Thing("SchemaVariant", p.id)),
                    change_set_pk, p.id, variant_spec),
                 p.id)
    IN build(resolve_schema_variant(d, tm, change_set_pk, schema_id,
                                    variant_spec, metadata))

\* set_default_schema_variant_id, for a schema spec that names no default
set_default_schema_variant_id(d, schema_id, variant_id) ==
    IF d.schemas[schema_id].default_schema_variant_id = NONE
    THEN [d EXCEPT !.schemas[schema_id].default_schema_variant_id = variant_id]
    ELSE d

\* SchemaVariantDefinition::get_by_func_id
definition_by_func_id(d, func_id) ==
    LET least(hits) == IF hits = {} THEN NONE
                       ELSE CHOOSE i \in hits : \A j \in hits : i <= j
    IN least({i \in DOMAIN d.schema_variant_definitions :
                /\ ~d.schema_variant_definitions[i].deleted
                /\ d.schema_variant_definitions[i].func_id = func_id})

\* create_schema_variant_definition
create_schema_variant_definition(d, tm, schema_spec, installed_pkg_id, schema_variant_id, asset_func_id) ==
    LET record(d1, id) ==
          Res(InstalledPkgAsset_new(d1, "SchemaVariantDefinition", id,
                                    installed_pkg_id, hash(schema_spec)),
              tm, Ok, id)
        installed(id) ==
          IF d.schema_variant_definitions[id].deleted
          THEN Res(d, tm, "InstalledSchemaVariantDefinitionMissing", NONE)
          ELSE record(d, id)
        lookup(rows, by_func) ==
          IF rows # {} THEN installed(d.installed_assets[pop(rows)].id)
          ELSE IF by_func = NONE
          THEN record([d EXCEPT !.schema_variant_definitions =
                          Append(@, [func_id |-> asset_func_id,
                                     schema_variant_id |-> schema_variant_id,
                                     deleted |-> FALSE])],
                      Len(d.schema_variant_definitions) + 1)
          ELSE record([d EXCEPT
                          !.schema_variant_definitions[by_func].schema_variant_id =
                              schema_variant_id],
                      by_func)
    IN lookup(list_for_kind_and_hash(d, "SchemaVariantDefinition", hash(schema_spec)),
              definition_by_func_id(d, asset_func_id))

\* create_schema
create_schema(d, schema_spec) ==
    IF ~schema_spec.data THEN Res(d, <<>>, "DataNotFound", NONE)
    ELSE Res([d EXCEPT !.schemas =
                Append(@, [name |-> schema_spec.name, deleted |-> FALSE,
                           default_schema_variant_id |-> NONE])],
             <<>>, Ok, Len(d.schemas) + 1)

\* update_schema
update_schema(d, id, schema_spec) ==
    [d EXCEPT !.schemas[id].name = schema_spec.name]

\* import_schema, lines 1807-1853: one variant spec of a resolved schema;
\* r.val is the list installed_schema_variant_ids.
import_schema_one_variant(r, change_set_pk, schema_id, schema_spec, variant_spec, installed_pkg_id, metadata) ==
    LET defined(def, ids) == Res(def.db, def.tm, def.err, ids)
        define(v, asset_func, d1, ids) ==
          IF ~variant_spec.data THEN Res(v.db, v.tm, Ok, ids)
          ELSE IF asset_func.kind = "None"
          THEN Res(d1, v.tm, "MissingFuncUniqueId", ids)
          ELSE IF asset_func.kind # "Func" THEN Res(d1, v.tm, Ok, ids)
          ELSE defined(create_schema_variant_definition(
                          d1, v.tm, schema_spec, installed_pkg_id, v.val,
                          asset_func.id), ids)
        imported(v) ==
          IF v.err # Ok THEN Res(v.db, v.tm, v.err, r.val)
          ELSE IF v.val = NONE THEN Res(v.db, v.tm, Ok, r.val)
          ELSE define(v, tm_get(v.tm, change_set_pk, variant_spec.func_unique_id),
                      set_default_schema_variant_id(v.db, schema_id, v.val),
                      Append(r.val, v.val))
    IN imported(import_schema_variant(r.db, r.tm, change_set_pk, schema_id,
                                      variant_spec, installed_pkg_id, metadata))

\* import_schema, lines 1730-1785: the schema the spec resolves to, as
\* [go, err, db, id]; go is FALSE for a schema that is None.
resolve_schema(d, tm, change_set_pk, schema_spec) ==
    LET none(d1, e) == [go |-> FALSE, err |-> e, db |-> d1, id |-> NONE]
        some(d1, id) == [go |-> TRUE, err |-> Ok, db |-> d1, id |-> id]
        installed(id) == IF schema_visible(d, id) THEN some(d, id)
                         ELSE none(d, "InstalledSchemaMissing")
        created(c) == IF c.err # Ok THEN none(d, c.err) ELSE some(c.db, c.val)
        lookup(rows, existing) ==
          IF rows # {} THEN installed(d.installed_assets[pop(rows)].id)
          ELSE IF existing.kind = "Schema"
          THEN IF schema_spec.deleted
               THEN none([d EXCEPT !.schemas[existing.id].deleted = TRUE], Ok)
               ELSE some(IF schema_spec.data
                         THEN update_schema(d, existing.id, schema_spec) ELSE d,
                         existing.id)
          ELSE IF schema_spec.deleted THEN none(d, Ok)
          ELSE created(create_schema(d, schema_spec))
    IN lookup(list_for_kind_and_hash(d, "Schema", hash(schema_spec)),
              IF schema_spec.unique_id = NoStr THEN NoThing
              ELSE tm_get(tm, change_set_pk, schema_spec.unique_id))

\* import_schema: val is the list of the ids of the variants it imported
import_schema(d, tm, change_set_pk, schema_spec, installed_pkg_id, metadata) ==
    LET build(p) ==
          IF ~p.go THEN Res(p.db, tm, p.err, <<>>)
          ELSE ForEach(LAMBDA r, vs :
                          import_schema_one_variant(r, change_set_pk, p.id,
                              schema_spec, vs, installed_pkg_id, metadata),
                       Res(InstalledPkgAsset_new(p.db, "Schema", p.id,
                                                 installed_pkg_id, hash(schema_spec)),
                           IF schema_spec.unique_id = NoStr THEN tm
                           ELSE tm_insert(tm, change_set_pk, schema_spec.unique_id,
                                          Thing("Schema", p.id)),
                           Ok, <<>>),
                       schema_spec.variants)
    IN build(resolve_schema(d, tm, change_set_pk, schema_spec))

----------------------------------------------------------------------------
(* Components and edges *)

\* A plausible slip: no value is taken to ask for a kind.
get_prop_kind_for_value_none(value) == NoStr

\* get_prop_kind_for_value: the PropKind a value asks for, NoStr for None
get_prop_kind_for_value(value) ==
    CASE value.json = "Array" -> "Array"
      [] value.json = "Bool" -> "Boolean"
      [] value.json = "Number" -> "Integer"
      [] value.json = "Object" -> "Object"
      [] value.json = "String" -> "String"
      [] OTHER -> NoStr

\* The names the prop paths of the model are made of.
PropNames ==
    {"si", "name", "protected", "type", "color", "domain", "secrets",
     "resource", "status", "payload", "resource_value", "code",
     "qualification", "deleted_at", "size"}

\* The path of the parent prop: the one of paths that path extends by a name
parent_path(paths, path) ==
    LET hits == {q \in paths : \E n \in PropNames : path = q \o "/" \o n}
    IN IF hits = {} THEN NoStr ELSE CHOOSE q \in hits : TRUE

\* A plausible slip: no path is taken to lie below another.
is_descendant_of_none(path, parent) == FALSE

\* PropPath::is_descendant_of: parent is a prefix of path, part by part
is_descendant_of(path, parent) ==
    LET tails == {"/" \o n : n \in PropNames}
    IN \/ path = parent
       \/ \E t \in tails : path = parent \o t
       \/ \E t, u \in tails : path = parent \o t \o u

\* Component::get_by_id(..).is_some()
component_visible(d, id) == id \in DOMAIN d.components /\ ~d.components[id].deleted

\* Component::new
Component_new(d, name, schema_variant_id) ==
    Res([d EXCEPT !.components =
            Append(@, [name |-> name, schema_variant_id |-> schema_variant_id,
                       deleted |-> FALSE, hidden |-> FALSE,
                       needs_destroy |-> FALSE, resource |-> NoStr,
                       root_value |-> NoValue,
                       funcs |-> [p \in {} |-> NONE],
                       values |-> [p \in {} |-> NoValue],
                       args |-> [p \in {} |-> <<>>]])],
        <<>>, Ok, Len(d.components) + 1)

\* Component::set_resource: the result of an action run becomes the resource
\* of the component
set_resource(d, component_id, result) ==
    [d EXCEPT !.components[component_id].resource = result]

\* Component::list_for_schema: the visible components of a schema
list_for_schema(d, schema_id) ==
    {c \in DOMAIN d.components :
        /\ ~d.components[c].deleted
        /\ d.schema_variants[d.components[c].schema_variant_id].schema_id = schema_id}

\* Edge::list_for_component: the visible edges at a component
list_for_component(d, component_id) ==
    {e \in DOMAIN d.edges :
        /\ ~d.edges[e].deleted
        /\ (d.edges[e].head = component_id \/ d.edges[e].tail = component_id)}

\* A plausible slip: the name is left out of the query.
find_socket_of_any_name(d, name, kind, node) ==
    LET hits == {i \in DOMAIN d.sockets :
                    /\ d.sockets[i].schema_variant_id =
                           d.components[node].schema_variant_id
                    /\ d.sockets[i].kind = kind}
    IN IF hits = {} THEN NONE ELSE CHOOSE i \in hits : \A j \in hits : i <= j

\* Socket::find_by_name_for_edge_kind_and_node: NONE without such a socket
find_by_name_for_edge_kind_and_node(d, name, kind, node) ==
    LET hits == {i \in DOMAIN d.sockets :
                    /\ d.sockets[i].schema_variant_id =
                           d.components[node].schema_variant_id
                    /\ d.sockets[i].name = name
                    /\ d.sockets[i].kind = kind}
    IN IF hits = {} THEN NONE ELSE CHOOSE i \in hits : \A j \in hits : i <= j

\* Edge::new_for_connection
Edge_new_for_connection(d, head, to_socket, tail, from_socket) ==
    Res([d EXCEPT !.edges =
            Append(@, [head |-> head, to_socket |-> to_socket, tail |-> tail,
                       from_socket |-> from_socket, deleted |-> FALSE])],
        <<>>, Ok, Len(d.edges) + 1)

\* A plausible slip: the output socket is looked up before the input socket.
import_edge_output_first(d, tm, change_set_pk, edge_spec) ==
    LET reconcile(d1, id) ==
          Res(IF d1.edges[id].deleted /\ ~edge_spec.deleted
              THEN [d1 EXCEPT !.edges[id].deleted = FALSE]
              ELSE IF ~d1.edges[id].deleted /\ edge_spec.deleted
              THEN [d1 EXCEPT !.edges[id].deleted = TRUE]
              ELSE d1,
              tm_insert(tm, change_set_pk, edge_spec.unique_id, Thing("Edge", id)),
              Ok, NoStr)
        created(n) == reconcile(n.db, n.val)
        connect(head, tail, to_socket, from_socket) ==
          IF from_socket = NONE THEN Res(d, tm, Ok, "MissingOutputSocket")
          ELSE IF to_socket = NONE THEN Res(d, tm, Ok, "MissingInputSocket")
          ELSE created(Edge_new_for_connection(d, head.id, to_socket, tail.id,
                                               from_socket))
        resolve(existing, head, tail) ==
          IF existing.kind = "Edge" THEN reconcile(d, existing.id)
          ELSE IF edge_spec.deleted THEN Res(d, tm, Ok, NoStr)
          ELSE IF head.kind # "Component" \/ tail.kind # "Component"
          THEN Res(d, tm, "MissingComponentForEdge", NoStr)
          ELSE connect(head, tail,
                       find_by_name_for_edge_kind_and_node(
                            d, edge_spec.to_socket_name, "Input", head.id),
                       find_by_name_for_edge_kind_and_node(
                            d, edge_spec.from_socket_name, "Output", tail.id))
    IN resolve(tm_get(tm, change_set_pk, edge_spec.unique_id),
               tm_get(tm, change_set_pk, edge_spec.to_component_unique_id),
               tm_get(tm, change_set_pk, edge_spec.from_component_unique_id))

\* import_edge: val is the skip it returns, NoStr for Ok(None)
import_edge(d, tm, change_set_pk, edge_spec) ==
    LET \* lines 587-621
        reconcile(d1, id) ==
          Res(IF d1.edges[id].deleted /\ ~edge_spec.deleted
              THEN [d1 EXCEPT !.edges[id].deleted = FALSE]
              ELSE IF ~d1.edges[id].deleted /\ edge_spec.deleted
              THEN [d1 EXCEPT !.edges[id].deleted = TRUE]
              ELSE d1,
              tm_insert(tm, change_set_pk, edge_spec.unique_id, Thing("Edge", id)),
              Ok, NoStr)
        created(n) == reconcile(n.db, n.val)
        connect(head, tail, to_socket, from_socket) ==
          IF to_socket = NONE THEN Res(d, tm, Ok, "MissingInputSocket")
          ELSE IF from_socket = NONE THEN Res(d, tm, Ok, "MissingOutputSocket")
          ELSE created(Edge_new_for_connection(d, head.id, to_socket, tail.id,
                                               from_socket))
        \* lines 526-585
        resolve(existing, head, tail) ==
          IF existing.kind = "Edge" THEN reconcile(d, existing.id)
          ELSE IF edge_spec.deleted THEN Res(d, tm, Ok, NoStr)
          ELSE IF head.kind # "Component" \/ tail.kind # "Component"
          THEN Res(d, tm, "MissingComponentForEdge", NoStr)
          ELSE connect(head, tail,
                       find_by_name_for_edge_kind_and_node(
                            d, edge_spec.to_socket_name, "Input", head.id),
                       find_by_name_for_edge_kind_and_node(
                            d, edge_spec.from_socket_name, "Output", tail.id))
    IN resolve(tm_get(tm, change_set_pk, edge_spec.unique_id),
               tm_get(tm, change_set_pk, edge_spec.to_component_unique_id),
               tm_get(tm, change_set_pk, edge_spec.from_component_unique_id))

\* Schema::find_by_name and then find_variant_by_name: the visible variant
\* of that name of the visible schema of that name, NONE without one.
find_variant_by_names(d, schema_name, variant_name) ==
    LET hits == {v \in DOMAIN d.schema_variants :
                    /\ ~d.schema_variants[v].deleted
                    /\ d.schema_variants[v].name = variant_name
                    /\ ~d.schemas[d.schema_variants[v].schema_id].deleted
                    /\ d.schemas[d.schema_variants[v].schema_id].name = schema_name}
    IN IF hits = {} THEN NONE ELSE CHOOSE v \in hits : \A w \in hits : v <= w

\* PkgExporter::export_component with ComponentSpecVariant::UpdateVariant:
\* one attribute per prop of the component's variant, the root first; the
\* funcs are named by their ids.
export_component(d, component_id, schema_name, variant_name) ==
    LET c == d.components[component_id]
        props == SeqOfSet({i \in DOMAIN d.props :
                              d.props[i].schema_variant_id = c.schema_variant_id})
        parent_of(path) ==
          parent_path({d.props[i].path : i \in Range(props)}, path)
        shape(kind) ==
          CASE kind = "String" -> "String"
            [] kind = "Integer" -> "Number"
            [] kind = "Boolean" -> "Bool"
            [] kind = "Array" -> "Array"
            [] OTHER -> "Object"
        attribute(prop) ==
          [path |-> prop.path,
           parent_path |-> parent_of(prop.path),
           key |-> NoStr,
           index |-> NoIndex,
           value |-> IF prop.kind \in {"Object", "Map", "Array"}
                     THEN Json(shape(prop.kind), NoStr, {})
                     ELSE IF prop.default_value # NoStr
                     THEN Json(shape(prop.kind), prop.default_value, {})
                     ELSE Json("Null", NoStr, {}),
           implicit_value |->
               IF prop.path = "root" THEN c.root_value
               ELSE IF prop.path = "root/resource" /\ c.resource # NoStr
               THEN Json("Object", c.resource, {})
               ELSE NoValue,
           func_unique_id |->
               id_string("func",
                         IF prop.path \in DOMAIN c.funcs THEN c.funcs[prop.path]
                         ELSE IF prop.func_id # NONE THEN prop.func_id
                         ELSE func_by_name(d, "si:unset")),
           inputs |->
               IF prop.path \in DOMAIN c.args
               THEN [k \in DOMAIN c.args[prop.path] |->
                        [name |-> d.func_arguments[
                                      c.args[prop.path][k].func_argument_id].name,
                         kind |-> "Prop",
                         prop_path |->
                             d.props[c.args[prop.path][k].internal_provider_id].path]]
               ELSE <<>>]
    IN [unique_id |-> id_string("component", component_id),
        name |-> c.name,
        schema_name |-> schema_name,
        variant_name |-> variant_name,
        needs_destroy |-> c.needs_destroy,
        deleted |-> c.deleted,
        attributes |-> [i \in DOMAIN props |-> attribute(d.props[props[i]])]]

\* get_ip_for_input: the implicit internal provider of the prop an input
\* names, which is numbered like the prop; NONE for a path the variant has
\* no prop at and for an output socket.
get_ip_for_input(d, variant_id, input) ==
    IF input.kind = "Prop"
    THEN find_prop_by_path_opt(d, variant_id, input.prop_path)
    ELSE NONE

\* update_prototype for the prototype of the component's attribute value at
\* the path of the spec: its function is funcs[path] and its arguments are
\* args[path], each with a FuncArgument and an internal provider.
update_prototype(d, tm, change_set_pk, component_id, variant_id, attribute_spec) ==
    LET path == attribute_spec.path
        inputs == attribute_spec.inputs
        attribute_func == tm_get(tm, change_set_pk, attribute_spec.func_unique_id)
        current_apas == IF path \in DOMAIN d.components[component_id].args
                        THEN d.components[component_id].args[path] ELSE <<>>
        func_arg(apa) == d.func_arguments[apa.func_argument_id]
        named(name) == {k \in DOMAIN inputs : inputs[k].name = name}
        \* lines 1183-1196: the arguments whose name an input has stay and
        \* point at the provider of the first input of that name
        matched(apa) ==
          LET input == inputs[CHOOSE k \in named(func_arg(apa).name) :
                                 \A l \in named(func_arg(apa).name) : k <= l]
              ip_id == get_ip_for_input(d, variant_id, input)
          IN IF ip_id # NONE THEN [apa EXCEPT !.internal_provider_id = ip_id]
             ELSE apa
        kept == LET stays(apa) == named(func_arg(apa).name) # {}
                    left == SelectSeq(current_apas, stays)
                IN [k \in DOMAIN left |-> matched(left[k])]
        processed_inputs == {func_arg(current_apas[k]).name : k \in DOMAIN current_apas}
        \* FuncArgument::find_by_name_for_func
        find_by_name_for_func(name) ==
          LET hits == {i \in DOMAIN d.func_arguments :
                          /\ ~d.func_arguments[i].deleted
                          /\ d.func_arguments[i].func_id = attribute_func.id
                          /\ d.func_arguments[i].name = name}
          IN IF hits = {} THEN NONE ELSE CHOOSE i \in hits : \A j \in hits : i <= j
        \* lines 1199-1236: one input that no argument was processed for
        add(a, input) ==
          LET arg == find_by_name_for_func(input.name)
              ip_id == get_ip_for_input(d, variant_id, input)
              hits == {k \in DOMAIN a.val : a.val[k].func_argument_id = arg}
          IN IF input.name \in processed_inputs THEN a
             ELSE IF arg = NONE THEN Res(a.db, a.tm, "MissingFuncArgument", a.val)
             ELSE IF ip_id = NONE THEN a
             ELSE IF hits # {}
             THEN with_val(a, [a.val EXCEPT
                                  ![CHOOSE k \in hits : \A l \in hits : k <= l]
                                       .internal_provider_id = ip_id])
             ELSE with_val(a, Append(a.val, [func_argument_id |-> arg,
                                             internal_provider_id |-> ip_id]))
        \* lines 1163-1165
        set_func_id(d1) ==
          [d1 EXCEPT !.components[component_id].funcs =
              [p \in DOMAIN @ \cup {path} |->
                  IF p = path THEN attribute_func.id ELSE @[p]]]
        set_args(d1, apas) ==
          [d1 EXCEPT !.components[component_id].args =
              [p \in DOMAIN @ \cup {path} |-> IF p = path THEN apas ELSE @[p]]]
        done(a) == Res(set_args(a.db, a.val), tm, a.err, NoStr)
    IN IF attribute_func.kind # "Func" THEN Res(d, tm, "MissingFuncUniqueId", NoStr)
       ELSE IF inputs = <<>> THEN Res(set_args(set_func_id(d), <<>>), tm, Ok, NoStr)
       ELSE IF \E k \in DOMAIN current_apas : func_arg(current_apas[k]).deleted
       THEN Res(set_func_id(d), tm, "MissingFuncArgumentById", NoStr)
       ELSE done(ForEach(add, Res(set_func_id(d), tm, Ok, kept), inputs))

\* A plausible slip: the test is left out, and a key or an index without a
\* parent is treated like one with a parent.
key_or_index_with_parent(attribute) == FALSE

\* import_component_attribute, line 919
key_or_index_but_no_parent(attribute) ==
    /\ attribute.parent_path = NoStr
    /\ attribute.key # NoStr \/ attribute.index # NoIndex

\* A plausible slip: the explicit value of the spec is written even when the
\* spec has an implicit value.
written_value_explicit(attribute) == attribute.value

\* import_component_attribute, lines 1044-1048: what is written for the root
written_value(attribute) ==
    IF attribute.implicit_value # NoValue
    THEN attribute.implicit_value ELSE attribute.value

\* import_component_attribute for a prop path.  value_cache and prop_cache
\* are the paths cached so far; val is [skip, value_cache, prop_cache] with
\* skip = NoStr for Ok(None).
import_component_attribute(d, tm, change_set_pk, component_id, variant_id, attribute, value_cache, prop_cache) ==
    LET out(d1, e, skip, cached) ==
          Res(d1, tm, e, [skip |-> skip,
                          value_cache |-> value_cache \cup cached,
                          prop_cache |-> prop_cache \cup {attribute.path}])
        \* lines 1066-1079
        updated(u) ==
          out(u.db, u.err, NoStr, IF u.err = Ok THEN {attribute.path} ELSE {})
        \* lines 1017-1059: only the root's value is written, as a whole
        write ==
          updated(update_prototype(
            IF attribute.path = "root"
            THEN [d EXCEPT !.components[component_id].root_value =
                               written_value(attribute),
                           !.components[component_id].values =
                               [p \in DOMAIN @ \cup {"root"} |->
                                   IF p = "root" THEN written_value(attribute)
                                   ELSE @[p]]]
            ELSE d,
            tm, change_set_pk, component_id, variant_id, attribute))
        \* lines 975-1026
        located(prop) ==
          IF attribute.key # NoStr \/ attribute.index # NoIndex
          THEN out(d, Ok, NoStr, {})
          ELSE IF /\ attribute.parent_path # NoStr
                  /\ \/ attribute.parent_path \notin prop_cache
                     \/ find_prop_by_path_opt(d, variant_id,
                                              attribute.parent_path) = NONE
          THEN out(d, "AttributeValueParentPropNotFound", NoStr, {})
          ELSE IF /\ attribute.parent_path # NoStr
                  /\ attribute.parent_path \notin value_cache
          THEN out(d, Ok, NoStr, {})
          ELSE IF ~d.props[prop].has_value THEN out(d, Ok, NoStr, {})
          ELSE write
        \* lines 942-973
        checked(prop, expected_kind) ==
          IF prop = NONE THEN out(d, Ok, "MissingProp", {})
          ELSE IF /\ change_set_pk # NONE
                  /\ is_descendant_of(d.props[prop].path, "root/resource")
          THEN out(d, Ok, NoStr, {})
          ELSE IF /\ expected_kind # NoStr
                  /\ expected_kind #
                       (IF d.props[prop].kind \in {"Map", "Object"}
                        THEN "Object" ELSE d.props[prop].kind)
                  /\ d.props[prop].path # "root/resource/payload"
          THEN out(d, Ok, "KindMismatch", {})
          ELSE located(prop)
    IN IF key_or_index_but_no_parent(attribute)
       THEN out(d, "AttributeValueWithKeyOrIndexButNoParent", NoStr, {})
       ELSE checked(find_prop_by_path_opt(d, variant_id, attribute.path),
                    get_prop_kind_for_value(attribute.value))

\* A plausible slip: the ThingMap is not asked for the component.
existing_component_none(tm, change_set_pk, component_spec) == NoThing

\* import_component, lines 682-686: what the ThingMap has for the spec
existing_component(tm, change_set_pk, component_spec) ==
    tm_get(tm, change_set_pk, component_spec.unique_id)

\* import_component for a spec whose variant is named by schema and variant
\* name (UpdateVariant) and whose socket attributes, which are not written,
\* are left out.  val is the list of attribute skips, each with its path and
\* whether the call wrote anything.
import_component(d, tm, change_set_pk, component_spec, force_resource_patch) ==
    LET \* lines 885-889: the deleted flag of the spec against the visibility
        \* of the component in hand
        reconcile(d1, tm1, id, was_deleted, skips) ==
          Res(IF was_deleted /\ ~component_spec.deleted
              THEN [d1 EXCEPT !.components[id].deleted = FALSE]
              ELSE IF ~was_deleted /\ component_spec.deleted
              THEN [d1 EXCEPT !.components[id].deleted = TRUE]
              ELSE d1,
              tm1, Ok, skips)
        \* lines 872-883: needs_destroy and the resource
        flagged(d1, id) ==
          IF component_spec.needs_destroy
          THEN [d1 EXCEPT !.components[id].needs_destroy = TRUE]
          ELSE d1
        finish(a, id, was_deleted) ==
          IF a.err # Ok THEN Res(a.db, a.tm, a.err, a.val.skips)
          ELSE reconcile(
                 IF /\ a.val.resource_value.json = "Object"
                    /\ (force_resource_patch \/ change_set_pk = NONE)
                 THEN set_resource(flagged(a.db, id), id,
                                   a.val.resource_value.data)
                 ELSE flagged(a.db, id),
                 a.tm, id, was_deleted, a.val.skips)
        \* lines 849-870: one attribute
        step(a, id, variant, attribute) ==
          LET got(r) ==
                Res(r.db, r.tm, r.err,
                    [skips |-> IF r.val.skip = NoStr THEN a.val.skips
                               ELSE Append(a.val.skips,
                                           [path |-> attribute.path,
                                            skip |-> r.val.skip,
                                            wrote |-> r.db # a.db]),
                     value_cache |-> r.val.value_cache,
                     prop_cache |-> r.val.prop_cache,
                     resource_value |->
                         IF r.err = Ok /\ attribute.path = "root/resource"
                         THEN attribute.implicit_value
                         ELSE a.val.resource_value])
          IN got(import_component_attribute(a.db, a.tm, change_set_pk, id, variant,
                                            attribute, a.val.value_cache,
                                            a.val.prop_cache))
        \* lines 771-836: the root's implicit value over the variant's defaults
        merged(d1, variant, attributes) ==
          [attributes EXCEPT ![1].implicit_value =
              IF @.json = "Object"
              THEN Json("Object", @.data,
                        @.keys \cup {n \in PropNames :
                            find_prop_by_path_opt(d1, variant, "root/" \o n) # NONE})
              ELSE @]
        \* lines 838-846: what the component has and the spec does not name
        added(exported) ==
          SeqOfSet({i \in DOMAIN exported :
                      \A k \in DOMAIN component_spec.attributes :
                          component_spec.attributes[k].path # exported[i].path})
        all(d1, variant, exported) ==
          merged(d1, variant, component_spec.attributes)
              \o [k \in DOMAIN added(exported) |-> exported[added(exported)[k]]]
        \* lines 701-870
        write(d1, tm1, id, variant) ==
          IF component_spec.attributes = <<>>
          THEN Res(d1, tm1, "panic: index out of bounds", <<>>)
          ELSE finish(
                 ForEach(LAMBDA a, attribute : step(a, id, variant, attribute),
                         Res([d1 EXCEPT !.components[id].name = component_spec.name],
                             tm1, Ok,
                             [skips |-> <<>>, value_cache |-> {}, prop_cache |-> {},
                              resource_value |-> NoValue]),
                         all(d1, variant,
                             export_component(d1, id, component_spec.schema_name,
                                              component_spec.variant_name).attributes)),
                 \* the component in hand is the one Component::new returned
                 \* or the copy of it that the ThingMap was given at once
                 \* (lines 685-693): its visibility is that of a new component
                 id, FALSE)
        created(n, variant) ==
          write(n.db, tm_insert(tm, change_set_pk, component_spec.unique_id,
                                Thing("Component", n.val)), n.val, variant)
        \* lines 633-699
        resolve(variant, existing) ==
          IF variant = NONE
          THEN Res(d, tm, "ComponentMissingUpdateSchemaVariant", <<>>)
          ELSE IF existing.kind = "Component" THEN write(d, tm, existing.id, variant)
          ELSE created(Component_new(d, component_spec.name, variant), variant)
    IN resolve(find_variant_by_names(d, component_spec.schema_name,
                                     component_spec.variant_name),
               existing_component(tm, change_set_pk, component_spec))

\* PkgExporter::export_edge
export_edge(d, edge_id) ==
    LET e == d.edges[edge_id]
    IN [unique_id |-> id_string("edge", edge_id),
        to_component_unique_id |-> id_string("component", e.head),
        from_component_unique_id |-> id_string("component", e.tail),
        to_socket_name |-> d.sockets[e.to_socket].name,
        from_socket_name |-> d.sockets[e.from_socket].name,
        deleted |-> FALSE]

----------------------------------------------------------------------------
(* import_change_set: the schemas to upgrade and the schemas to create *)

\* ImportOptions.schemas: None, or Some(names)
NoFilter == [some |-> FALSE, names |-> {}]

\* lines 217-224 and 419-426
selected(options, schema_spec) ==
    ~options.schemas.some \/ to_lowercase(schema_spec.name) \in options.schemas.names

\* Duration::num_seconds: the whole seconds of a signed duration in ticks,
\* the fraction cut off towards zero
num_seconds(ticks) ==
    IF ticks >= 0 THEN ticks \div TicksPerSecond
    ELSE 0 - ((0 - ticks) \div TicksPerSecond)

\* A plausible slip: the durations are compared with >= and a package that
\* is not a whole second younger replaces the variant too.
should_upgrade_not_older(d, variant_id, metadata) ==
    /\ \/ d.schema_variants[variant_id].pkg_created_at = NONE
       \/ num_seconds(metadata.created_at
                         - d.schema_variants[variant_id].pkg_created_at) >= 0
    /\ d.schema_variants[variant_id].builtin

\* lines 236-248: may this installed variant be replaced by the package's
should_upgrade(d, variant_id, metadata) ==
    /\ \/ d.schema_variants[variant_id].pkg_created_at = NONE
       \/ num_seconds(metadata.created_at
                         - d.schema_variants[variant_id].pkg_created_at) > 0
    /\ d.schema_variants[variant_id].builtin

\* lines 229-254: the first (schema, variant spec, variant) the loops reach
\* that may be upgraded; <<>> when there is none.
upgrade_target(d, schema_spec, metadata) ==
    LET hits == {t \in (DOMAIN d.schemas) \X (DOMAIN schema_spec.variants)
                         \X (DOMAIN d.schema_variants) :
                    /\ schema_visible(d, t[1])
                    /\ d.schemas[t[1]].name = schema_spec.name
                    /\ variant_visible(d, t[3])
                    /\ d.schema_variants[t[3]].schema_id = t[1]
                    /\ d.schema_variants[t[3]].name = schema_spec.variants[t[2]].name
                    /\ should_upgrade(d, t[3], metadata)}
        before(a, b) == \/ a[1] < b[1]
                        \/ a[1] = b[1] /\ a[2] < b[2]
                        \/ a[1] = b[1] /\ a[2] = b[2] /\ a[3] <= b[3]
    IN IF hits = {} THEN <<>>
       ELSE LET t == CHOOSE a \in hits : \A b \in hits : before(a, b)
            IN <<[schema_spec |-> schema_spec, schema_id |-> t[1],
                  variant_id |-> t[3]]>>

\* A plausible slip: the `continue 'spec` is left out, and a spec that is
\* put on the upgrade list goes on to the create list as well.
RECURSIVE classify_falls_through(_, _, _, _, _)
classify_falls_through(d, schemas, options, override, metadata) ==
    IF schemas = <<>> THEN [to_upgrade |-> <<>>, to_create |-> <<>>]
    ELSE LET schema_spec == Head(schemas)
             rest == classify_falls_through(d, Tail(schemas), options, override,
                                            metadata)
             target == IF options.is_builtin /\ override
                       THEN upgrade_target(d, schema_spec, metadata) ELSE <<>>
         IN IF ~selected(options, schema_spec) THEN rest
            ELSE [rest EXCEPT !.to_upgrade = target \o @,
                              !.to_create = <<schema_spec>> \o @]

\* lines 206-258
RECURSIVE classify(_, _, _, _, _)
classify(d, schemas, options, override, metadata) ==
    IF schemas = <<>> THEN [to_upgrade |-> <<>>, to_create |-> <<>>]
    ELSE LET schema_spec == Head(schemas)
             rest == classify(d, Tail(schemas), options, override, metadata)
             target == IF options.is_builtin /\ override
                       THEN upgrade_target(d, schema_spec, metadata) ELSE <<>>
         IN IF ~selected(options, schema_spec) THEN rest
            ELSE IF target # <<>>
            THEN [rest EXCEPT !.to_upgrade = target \o @]
            ELSE [rest EXCEPT !.to_create = <<schema_spec>> \o @]

\* lines 290-372: the edges of a component are captured and deleted
capture_edges(d, component_id) ==
    LET capture(ids) ==
          [edges |-> [i \in DOMAIN ids |-> export_edge(d, ids[i])],
           db |-> [d EXCEPT !.edges = [e \in DOMAIN @ |->
                     IF e \in Range(ids) THEN [@[e] EXCEPT !.deleted = TRUE]
                     ELSE @[e]]]]
    IN capture(SeqOfSet(list_for_component(d, component_id)))

\* lines 275-382: one component of a schema that is upgraded; r.val is the
\* list exported_components.
capture_component(r, component_id, schema_name, variant_name) ==
    LET captured(comp_spec, e) ==
          Res([e.db EXCEPT !.components[component_id].hidden = TRUE,
                           !.components[component_id].deleted = TRUE,
                           !.components[component_id].needs_destroy = FALSE,
                           !.components[component_id].resource = NoStr],
              r.tm, Ok,
              Append(r.val, [comp_spec |-> comp_spec, edges |-> e.edges]))
    IN captured(export_component(r.db, component_id, schema_name, variant_name),
                capture_edges(r.db, component_id))

\* SchemaVariantDefinition::get_by_schema_variant_id, then delete_by_id
delete_definition_of(d, variant_id) ==
    [d EXCEPT !.schema_variant_definitions = [i \in DOMAIN @ |->
        IF @[i].schema_variant_id = variant_id /\ ~@[i].deleted
        THEN [@[i] EXCEPT !.deleted = TRUE] ELSE @[i]]]

\* lines 268-403: one round of the loop over schemas_to_upgrade; val is
\* [exported, variant_ids] with what this round adds.
upgrade_schema(d, tm, change_set_pk, entry, installed_pkg_id, metadata) ==
    LET imported(exported, s) ==
          Res(s.db, s.tm, s.err, [exported |-> exported, variant_ids |-> s.val])
        replace(c) ==
          imported(c.val,
            import_schema(
              [delete_definition_of(c.db, entry.variant_id) EXCEPT
                 !.schema_variants[entry.variant_id].deleted = TRUE,
                 !.schemas[entry.schema_id].deleted = TRUE],
              tm, change_set_pk, entry.schema_spec, installed_pkg_id, metadata))
    IN replace(ForEach(LAMBDA r, id :
                          capture_component(r, id, d.schemas[entry.schema_id].name,
                                            d.schema_variants[entry.variant_id].name),
                       Res(d, tm, Ok, <<>>),
                       SeqOfSet(list_for_schema(d, entry.schema_id))))

\* lines 405-409: after an upgrade every func is reachable by its id
insert_all_funcs(d, tm, change_set_pk) ==
    LET ids == {i \in DOMAIN d.funcs : ~d.funcs[i].deleted}
        keys == {<<change_set_pk, id_string("func", i)>> : i \in ids}
    IN [k \in DOMAIN tm \cup keys |->
          IF k \in keys
          THEN Thing("Func", CHOOSE i \in ids :
                                k = <<change_set_pk, id_string("func", i)>>)
          ELSE tm[k]]

\* lines 411-416: one captured component and then its captured edges.  The
\* code drops the skips (let _skips); r.val keeps them beside the list of
\* what was imported, in order, so that what was dropped can be told.
reimport_component(r, change_set_pk, captured) ==
    LET edge_done(q, edge_spec, e) ==
          Res(e.db, e.tm, e.err,
              [log |-> IF e.err = Ok THEN Append(q.val.log, "edge") ELSE q.val.log,
               skips |-> IF e.err = Ok /\ e.val # NoStr
                         THEN Append(q.val.skips,
                                     [component |-> NoStr,
                                      skip |-> [edge |-> edge_spec.unique_id,
                                                skip |-> e.val]])
                         ELSE q.val.skips])
        edges(c) ==
          IF c.err # Ok THEN Res(c.db, c.tm, c.err, r.val)
          ELSE ForEach(LAMBDA q, edge_spec :
                          edge_done(q, edge_spec,
                                    import_edge(q.db, q.tm, change_set_pk, edge_spec)),
                       Res(c.db, c.tm, Ok,
                           [log |-> Append(r.val.log, "component"),
                            skips |-> r.val.skips \o
                                [k \in DOMAIN c.val |->
                                    [component |-> captured.comp_spec.name,
                                     skip |-> c.val[k]]]]),
                       captured.edges)
    IN edges(import_component(r.db, r.tm, change_set_pk, captured.comp_spec, TRUE))

----------------------------------------------------------------------------
(* import_pkg_from_pkg as a sequence of steps.  A call runs inside the
   caller's transaction: txn is the store when the call began.  imp holds the
   arguments and locals of the running call and, across calls, how many calls
   were made and how each ended (history). *)

NoPkg == [name |-> NoStr, kind |-> "Module", created_at |-> NONE,
          funcs |-> <<>>, schemas |-> <<>>]

\* What one call of import_change_set is given: the specs of a change set
NoChangeSet ==
    [name |-> NoStr, funcs |-> <<>>, schemas |-> <<>>, components |-> <<>>,
     edges |-> <<>>]

\* ImportOptions::default()
DefaultOptions ==
    [schemas |-> NoFilter, skip_import_funcs |-> <<>>, no_record |-> FALSE,
     is_builtin |-> FALSE]

ImpIdle ==
    [pc |-> "idle", n |-> 0, history |-> <<>>, pkg |-> NoPkg,
     options |-> DefaultOptions, override |-> FALSE, change_set_pk |-> NONE,
     installed_pkg_id |-> NONE, i |-> 0, to_upgrade |-> <<>>,
     to_create |-> <<>>, exported |-> <<>>, variant_ids |-> <<>>,
     log |-> <<>>, err |-> Ok, cs |-> NoChangeSet, rest |-> <<>>,
     attribute_skips |-> <<>>, edge_skips |-> <<>>, import_skips |-> <<>>,
     produced |-> <<>>]

NoCall == [op |-> "none"]

\* ThingMap::new()
EmptyThingMap == [k \in {} |-> NONE]

\* pkg.metadata(), and whether ctx is in the builtin tenancy
Metadata(s) ==
    [name |-> s.pkg.name, kind |-> s.pkg.kind, created_at |-> s.pkg.created_at,
     builtin_ctx |-> s.options.is_builtin]

\* import_change_set returns (line 480) to import_pkg_from_pkg: a Module is
\* done (line 1323); a WorkspaceBackup pushes the skips of the change set
\* and goes on to its next change set (lines 1362-1414).
after_edges(s) ==
    LET pushed == [s EXCEPT !.i = 0,
                            !.import_skips =
                                Append(@, [change_set_pk |-> s.change_set_pk,
                                           attribute_skips |-> s.attribute_skips,
                                           edge_skips |-> s.edge_skips]),
                            !.attribute_skips = <<>>, !.edge_skips = <<>>]
    IN IF s.pkg.kind = "Module" THEN [s EXCEPT !.pc = "return"]
       ELSE [pushed EXCEPT !.pc = IF s.rest = <<>> THEN "return" ELSE "change_set"]

\* ... after its loop over the component specs (lines 447-467)
after_components(s) ==
    IF s.cs.edges # <<>> THEN [s EXCEPT !.i = 0, !.pc = "edges"]
    ELSE after_edges(s)

\* ... after its loop over schemas_to_create (lines 418-445)
after_schemas(s) ==
    IF s.cs.components # <<>> THEN [s EXCEPT !.i = 0, !.pc = "components"]
    ELSE after_components(s)

\* Where import_change_set goes on after its loop over the func specs
after_funcs(s, d) ==
    LET c == classify(d, s.cs.schemas, s.options, s.override, Metadata(s))
        next(t) == IF c.to_upgrade # <<>> THEN [t EXCEPT !.pc = "upgrade"]
                   ELSE IF c.to_create # <<>> THEN [t EXCEPT !.pc = "create"]
                   ELSE after_schemas(t)
    IN next([s EXCEPT !.to_upgrade = c.to_upgrade, !.to_create = c.to_create,
                      !.i = 0])

\* ... after its loop over schemas_to_upgrade
after_upgrade(s) ==
    IF s.exported # <<>> THEN [s EXCEPT !.i = 0, !.pc = "reimport"]
    ELSE IF s.to_create # <<>> THEN [s EXCEPT !.i = 0, !.pc = "create"]
    ELSE after_schemas(s)

\* ... after its loop over exported_components
after_reimport(s) ==
    IF s.to_create # <<>> THEN [s EXCEPT !.i = 0, !.pc = "create"]
    ELSE after_schemas(s)

\* A plausible slip: the Result of a step is dropped and the call goes on to
\* report success.
failed_swallowed(s, e) == [s EXCEPT !.pc = "return"]

\* A step that returned Err(e): the ? operator ends the call
failed(s, e) == [s EXCEPT !.pc = "error", !.err = e]

\* How a call ended, for the calls that follow
ended(s, outcome) ==
    [ImpIdle EXCEPT !.n = s.n,
                    !.history = Append(s.history,
                        [pkg |-> s.pkg, options |-> s.options,
                         outcome |-> outcome])]

\* A plausible slip: the duplicate check is left out.
already_installed_unchecked(d, root_hash) == FALSE

\* import_pkg_from_pkg, lines 1288-1290: is the archive installed already
already_installed(d, root_hash) == find_by_hash(d, root_hash)

\* The store of a workspace that holds nothing of its own: the intrinsic
\* funcs, si:identity with its argument.
IntrinsicDb ==
    [EmptyDb EXCEPT
        !.funcs = << [name |-> "si:identity", data |-> "intrinsic",
                      builtin |-> TRUE, deleted |-> FALSE],
                     [name |-> "si:setString", data |-> "intrinsic",
                      builtin |-> TRUE, deleted |-> FALSE],
                     [name |-> "si:unset", data |-> "intrinsic",
                      builtin |-> TRUE, deleted |-> FALSE] >>,
        !.func_arguments = << [func_id |-> 1, name |-> "identity",
                               deleted |-> FALSE] >>]

\* Workspace::clear_or_create_workspace: the workspace holds nothing of its
\* own afterwards; the record of installed packages stays.
clear_or_create_workspace(d) ==
    [IntrinsicDb EXCEPT !.installed_pkgs = d.installed_pkgs,
                        !.change_sets = d.change_sets]

\* A plausible slip: the loop over the change sets does not pass over the
\* default change set.
other_change_sets_all(change_sets, default_change_set_name) == change_sets

\* import_pkg_from_pkg, lines 1370-1373: the change sets the loop imports,
\* those of another name than the default change set, in package order
other_change_sets(change_sets, default_change_set_name) ==
    LET other(change_set) == change_set.name # default_change_set_name
    IN SelectSeq(change_sets, other)

\* import_pkg_from_pkg, lines 1306-1360: the first call of import_change_set
\* for the kind of the package; ctx_change_set_pk is the change set of ctx.
first_change_set(d, s, ctx_change_set_pk) ==
    LET default_change_set_name ==
          IF s.pkg.default_change_set = NoStr THEN "head"
          ELSE s.pkg.default_change_set
        named == {k \in DOMAIN s.pkg.change_sets :
                     s.pkg.change_sets[k].name = default_change_set_name}
        start(d1, change_set) ==
          [db |-> d1,
           imp |-> [s EXCEPT !.pc = "funcs", !.cs = change_set,
                             !.change_set_pk = NONE,
                             !.rest = other_change_sets(s.pkg.change_sets,
                                                        default_change_set_name)]]
    IN IF s.pkg.kind = "Module"
       THEN [db |-> d,
             imp |-> [s EXCEPT !.pc = "funcs",
                               !.change_set_pk = ctx_change_set_pk,
                               !.cs = [NoChangeSet EXCEPT
                                          !.funcs = s.pkg.funcs,
                                          !.schemas = s.pkg.schemas]]]
       ELSE IF s.pkg.workspace_pk = NoStr
       THEN [db |-> d, imp |-> failed(s, "WorkspacePkNotInBackup")]
       ELSE IF s.pkg.workspace_name = NoStr
       THEN [db |-> d, imp |-> failed(s, "WorkspaceNameNotInBackup")]
       ELSE IF named = {}
       THEN [db |-> clear_or_create_workspace(d),
             imp |-> failed(s, "WorkspaceBackupNoDefaultChangeSet")]
       ELSE start(clear_or_create_workspace(d),
                  s.pkg.change_sets[CHOOSE k \in named : \A l \in named : k <= l])

\* import_pkg_from_pkg, lines 1272-1360, up to the first func spec
BeginImport(packages, option_sets, overrides, change_set_pks) ==
    /\ imp.pc = "idle"
    /\ imp.n < MaxImports
    /\ \E pkg \in packages, options \in option_sets, override \in overrides,
          change_set_pk \in change_set_pks :
         LET root_hash == hash(pkg)
             s0 == [imp EXCEPT !.n = @ + 1, !.pkg = pkg, !.options = options,
                               !.override = override]
         IN IF already_installed(db, root_hash)
            THEN /\ imp' = ended(s0, "rejected")
                 /\ last' = [op |-> "begin", pkg |-> pkg, options |-> options,
                             err |-> "PackageAlreadyInstalled", pre |-> db]
                 /\ UNCHANGED <<db, thing_map, txn>>
            ELSE LET d1 == IF options.no_record THEN db
                           ELSE InstalledPkg_new(db, pkg.name, root_hash)
                     s1 == [s0 EXCEPT !.installed_pkg_id =
                                          IF options.no_record THEN NONE
                                          ELSE Len(d1.installed_pkgs)]
                 IN \E b \in {first_change_set(d1, s1, change_set_pk)} :
                    /\ db' = b.db
                    /\ txn' = db
                    /\ thing_map' = EmptyThingMap
                    /\ imp' = IF b.imp.pc = "funcs" /\ b.imp.cs.funcs = <<>>
                              THEN after_funcs(b.imp, b.db) ELSE b.imp
                    /\ last' = [op |-> "begin", pkg |-> pkg, options |-> options,
                                err |-> b.imp.err, pre |-> db]

\* A plausible slip: the lookup by name finds nothing (a wrong column).
found_by_name_nothing(d, func_spec) == {NONE}

\* What Func::find_by_name may return for a spec matched by name
found_by_name(d, func_spec) ==
    IF \/ is_intrinsic(func_spec.name)
       \/ func_spec.name \in special_case_funcs
       \/ func_spec.is_from_builtin
    THEN IF find_by_name(d, func_spec.name) = {} THEN {NONE}
         ELSE find_by_name(d, func_spec.name)
    ELSE {NONE}

\* import_change_set, lines 103-204: the next func spec
FuncStep ==
    /\ imp.pc = "funcs"
    /\ LET func_spec == imp.cs.funcs[imp.i + 1]
       IN \E found \in found_by_name(db, func_spec) :
          \E r \in {import_func_spec(db, thing_map, imp.change_set_pk, func_spec,
                                     found, imp.installed_pkg_id, imp.options)} :
            LET s == [imp EXCEPT !.i = @ + 1, !.log = Append(@, "func")]
            IN /\ db' = r.db
               /\ thing_map' = r.tm
               /\ imp' = IF r.err # Ok THEN failed(imp, r.err)
                         ELSE IF s.i = Len(imp.cs.funcs) THEN after_funcs(s, r.db)
                         ELSE s
               /\ last' = [op |-> "func", spec |-> func_spec, found |-> found,
                           err |-> r.err, val |-> r.val, pre |-> db,
                           pre_tm |-> thing_map]
    /\ UNCHANGED txn

\* import_change_set, lines 268-409: the next schema to upgrade
UpgradeStep ==
    /\ imp.pc = "upgrade"
    /\ \E entry \in {imp.to_upgrade[imp.i + 1]} :
       \E r \in {upgrade_schema(db, thing_map, imp.change_set_pk, entry,
                                imp.installed_pkg_id, Metadata(imp))} :
       LET s == [imp EXCEPT !.i = @ + 1, !.log = Append(@, "schema"),
                            !.exported = @ \o r.val.exported,
                            !.variant_ids = @ \o r.val.variant_ids]
           is_last == s.i = Len(imp.to_upgrade)
       IN /\ db' = r.db
          /\ thing_map' = IF r.err = Ok /\ is_last
                          THEN insert_all_funcs(r.db, r.tm, imp.change_set_pk)
                          ELSE r.tm
          /\ imp' = IF r.err # Ok THEN failed(imp, r.err)
                    ELSE IF is_last THEN after_upgrade(s) ELSE s
          /\ last' = [op |-> "upgrade", spec |-> entry.schema_spec, err |-> r.err,
                      val |-> r.val, pre |-> db, pre_tm |-> thing_map,
                      entry |-> entry]
    /\ UNCHANGED txn

\* import_change_set, lines 411-416: the next captured component and its edges
ReimportStep ==
    /\ imp.pc = "reimport"
    /\ \E captured \in {imp.exported[imp.i + 1]} :
       \E r \in {reimport_component(Res(db, thing_map, Ok,
                                        [log |-> <<>>, skips |-> <<>>]),
                                    imp.change_set_pk, captured)} :
       LET s == [imp EXCEPT !.i = @ + 1, !.log = @ \o r.val.log,
                            !.produced = @ \o
                                [k \in DOMAIN r.val.skips |->
                                    [change_set_pk |-> imp.change_set_pk,
                                     component |-> r.val.skips[k].component,
                                     skip |-> r.val.skips[k].skip]]]
       IN /\ db' = r.db
          /\ thing_map' = r.tm
          /\ imp' = IF r.err # Ok
                    THEN failed([imp EXCEPT !.log = @ \o r.val.log], r.err)
                    ELSE IF s.i = Len(imp.exported) THEN after_reimport(s) ELSE s
          /\ last' = [op |-> "reimport", spec |-> captured, err |-> r.err,
                      val |-> r.val.log, skips |-> r.val.skips, pre |-> db,
                      pre_tm |-> thing_map, change_set_pk |-> imp.change_set_pk]
    /\ UNCHANGED txn

\* import_change_set, lines 418-445: the next schema to create
CreateStep ==
    /\ imp.pc = "create"
    /\ \E schema_spec \in {imp.to_create[imp.i + 1]} :
       \E r \in {import_schema(db, thing_map, imp.change_set_pk, schema_spec,
                               imp.installed_pkg_id, Metadata(imp))} :
       LET s == [imp EXCEPT !.i = @ + 1, !.log = Append(@, "schema"),
                            !.variant_ids = @ \o r.val]
       IN /\ db' = r.db
          /\ thing_map' = r.tm
          /\ imp' = IF r.err # Ok THEN failed(imp, r.err)
                    ELSE IF s.i = Len(imp.to_create) THEN after_schemas(s)
                    ELSE s
          /\ last' = [op |-> "create", spec |-> schema_spec, err |-> r.err,
                      val |-> r.val, pre |-> db, pre_tm |-> thing_map]
    /\ UNCHANGED txn

\* import_change_set, lines 447-467: the next component spec of the package
ComponentStep ==
    /\ imp.pc = "components"
    /\ \E component_spec \in {imp.cs.components[imp.i + 1]} :
       \E r \in {import_component(db, thing_map, imp.change_set_pk,
                                  component_spec, FALSE)} :
       LET s == [imp EXCEPT !.i = @ + 1, !.log = Append(@, "component"),
                            !.attribute_skips =
                                IF r.val # <<>>
                                THEN Append(@, [name |-> component_spec.name,
                                                skips |-> r.val])
                                ELSE @,
                            !.produced = @ \o
                                [k \in DOMAIN r.val |->
                                    [change_set_pk |-> imp.change_set_pk,
                                     component |-> component_spec.name,
                                     skip |-> r.val[k]]]]
       IN /\ db' = r.db
          /\ thing_map' = r.tm
          /\ imp' = IF r.err # Ok THEN failed(imp, r.err)
                    ELSE IF s.i = Len(imp.cs.components) THEN after_components(s)
                    ELSE s
          /\ last' = [op |-> "import_component", spec |-> component_spec,
                      err |-> r.err, val |-> r.val, pre |-> db,
                      pre_tm |-> thing_map, change_set_pk |-> imp.change_set_pk]
    /\ UNCHANGED txn

\* import_change_set, lines 469-478: the next edge spec of the package
EdgeStep ==
    /\ imp.pc = "edges"
    /\ \E edge_spec \in {imp.cs.edges[imp.i + 1]} :
       \E r \in {import_edge(db, thing_map, imp.change_set_pk, edge_spec)} :
       LET skip == [edge |-> edge_spec.unique_id, skip |-> r.val]
           s == [imp EXCEPT !.i = @ + 1, !.log = Append(@, "edge"),
                            !.edge_skips = IF r.val # NoStr THEN Append(@, skip)
                                           ELSE @,
                            !.produced =
                                IF r.val # NoStr
                                THEN Append(@, [change_set_pk |-> imp.change_set_pk,
                                                component |-> NoStr,
                                                skip |-> skip])
                                ELSE @]
       IN /\ db' = r.db
          /\ thing_map' = r.tm
          /\ imp' = IF r.err # Ok THEN failed(imp, r.err)
                    ELSE IF s.i = Len(imp.cs.edges) THEN after_edges(s)
                    ELSE s
          /\ last' = [op |-> "import_edge", spec |-> edge_spec, err |-> r.err,
                      val |-> r.val, pre |-> db, pre_tm |-> thing_map,
                      change_set_pk |-> imp.change_set_pk]
    /\ UNCHANGED txn

\* import_pkg_from_pkg, lines 1383-1396: the next change set of a backup is
\* made (ChangeSet::new) and import_change_set is called for it
NextChangeSet ==
    /\ imp.pc = "change_set"
    /\ \E change_set \in {Head(imp.rest)} :
       \E d1 \in {[db EXCEPT !.change_sets = Append(@, [name |-> change_set.name])]} :
       LET s == [imp EXCEPT !.pc = "funcs", !.i = 0, !.cs = change_set,
                            !.rest = Tail(@),
                            !.change_set_pk = Len(d1.change_sets),
                            !.exported = <<>>, !.variant_ids = <<>>]
       IN /\ db' = d1
          /\ imp' = IF change_set.funcs = <<>> THEN after_funcs(s, d1) ELSE s
          /\ last' = [op |-> "change_set", name |-> change_set.name, pre |-> db]
    /\ UNCHANGED <<thing_map, txn>>

\* import_pkg_from_pkg returns Ok (lines 1323 and 1405-1413) and the caller
\* commits; skips = <<>> is None.
Return ==
    /\ imp.pc = "return"
    /\ imp' = ended(imp, "committed")
    /\ last' = [op |-> "return", pkg |-> imp.pkg, options |-> imp.options,
                err |-> Ok,
                installed_pkg_id |-> IF imp.pkg.kind = "Module"
                                     THEN imp.installed_pkg_id ELSE NONE,
                variant_ids |-> IF imp.pkg.kind = "Module"
                                THEN imp.variant_ids ELSE <<>>,
                skips |-> IF imp.pkg.kind = "Module" THEN <<>>
                          ELSE imp.import_skips,
                produced |-> imp.produced, to_upgrade |-> imp.to_upgrade,
                log |-> imp.log, pre |-> txn]
    /\ UNCHANGED <<db, thing_map, txn>>

\* import_pkg_from_pkg returned Err and the caller rolls the transaction back
Rollback ==
    /\ imp.pc = "error"
    /\ db' = txn
    /\ imp' = ended(imp, "rolled back")
    /\ last' = [op |-> "rollback", pkg |-> imp.pkg, options |-> imp.options,
                err |-> imp.err, installed_pkg_id |-> imp.installed_pkg_id,
                variant_ids |-> imp.variant_ids, log |-> imp.log, pre |-> txn]
    /\ UNCHANGED <<thing_map, txn>>

----------------------------------------------------------------------------
(* The store of a workspace before any package is imported: the intrinsic
   funcs exist, si:identity with its argument. *)

InitImport ==
    /\ db = IntrinsicDb
    /\ thing_map = EmptyThingMap
    /\ imp = ImpIdle
    /\ txn = IntrinsicDb
    /\ last = NoCall

----------------------------------------------------------------------------
(* Packages of funcs: SpecFunc *)

FuncSpec(name, unique_id, data, deleted, is_from_builtin, arguments) ==
    [name |-> name, unique_id |-> unique_id, data |-> data, deleted |-> deleted,
     is_from_builtin |-> is_from_builtin, arguments |-> arguments]

ArgX == <<[name |-> "x", unique_id |-> "uAx", deleted |-> FALSE]>>

fA1 == FuncSpec("f:a", "uA", "code1", FALSE, FALSE, ArgX)
fA2 == FuncSpec("f:a", "uA", "code2", FALSE, FALSE, ArgX)
fAdel == FuncSpec("f:a", "uA", "code1", TRUE, FALSE, ArgX)
fI1 == FuncSpec("si:identity", "uI", "id1", FALSE, FALSE, <<>>)
fI2 == FuncSpec("si:identity", "uI", "id2", FALSE, FALSE, <<>>)
fI0 == FuncSpec("si:identity", "uI", NoStr, FALSE, FALSE, <<>>)
fB1 == FuncSpec("f:a", "uB", "code3", FALSE, TRUE, <<>>)

Module(name, created_at, funcs, schemas) ==
    [name |-> name, kind |-> "Module",
     created_at |-> created_at * TicksPerSecond,
     funcs |-> funcs, schemas |-> schemas]

FuncPackages ==
    { Module("a", 1, <<fA1>>, <<>>),
      Module("a-copy", 1, <<fA1>>, <<>>),
      Module("a", 1, <<fA2>>, <<>>),
      Module("i", 1, <<fI1>>, <<>>),
      Module("i", 1, <<fI2>>, <<>>),
      Module("b", 1, <<fB1>>, <<>>),
      Module("bad", 1, <<fA1, fI0>>, <<>>),
      Module("del", 1, <<fA1, fAdel>>, <<>>),
      Module("only-del", 1, <<fAdel>>, <<>>),
      Module("upd", 1, <<fA1, fA2>>, <<>>) }

FuncOptions ==
    { DefaultOptions,
      [DefaultOptions EXCEPT !.is_builtin = TRUE],
      [DefaultOptions EXCEPT !.no_record = TRUE],
      [DefaultOptions EXCEPT !.skip_import_funcs = [u \in {"uA"} |-> 2]] }

BeginImportFunc == BeginImport(FuncPackages, FuncOptions, {FALSE}, {NONE})

NextFunc == BeginImportFunc \/ FuncStep \/ Return \/ Rollback

SpecFunc == InitImport /\ [][NextFunc]_vars

----------------------------------------------------------------------------
(* Claims about imports of funcs *)

\* The calls that ended before the call last begun.
PriorImports ==
    IF imp.pc = "idle" THEN SubSeq(imp.history, 1, Len(imp.history) - 1)
    ELSE imp.history

StepOps == {"func", "upgrade", "reimport", "create"}

(* C3, as stated: a second import of an archive (same root hash) that was
   imported and committed before is rejected with PackageAlreadyInstalled and
   changes nothing, whatever the options of either import. *)
C3_Original ==
    /\ last.op = "begin"
    /\ \E k \in DOMAIN PriorImports :
         /\ PriorImports[k].pkg = last.pkg
         /\ PriorImports[k].outcome = "committed"
    => last.err = "PackageAlreadyInstalled" /\ db = last.pre

(* C3, amended: a second import of an archive that was imported and
   committed before by an import that recorded it (no_record not set) is
   rejected with PackageAlreadyInstalled and changes nothing, whatever the
   options of the second import. *)
C3_RejectsRecordedArchive ==
    /\ last.op = "begin"
    /\ \E k \in DOMAIN PriorImports :
         /\ PriorImports[k].pkg = last.pkg
         /\ PriorImports[k].outcome = "committed"
         /\ ~PriorImports[k].options.no_record
    => last.err = "PackageAlreadyInstalled" /\ db = last.pre

\* A recorded archive is rejected when imported again with other options.
C3_Witness ==
    /\ last.op = "begin"
    /\ last.err = "PackageAlreadyInstalled"
    /\ db = last.pre
    /\ \E k \in DOMAIN PriorImports :
         /\ PriorImports[k].pkg = last.pkg
         /\ PriorImports[k].outcome = "committed"
         /\ PriorImports[k].options # last.options

(* C4: the first error of a step ends the import: after it nothing happens
   but the caller's rollback, which restores the store of before the import,
   the InstalledPkg row included; an archive whose earlier imports were all
   rolled back is not rejected as PackageAlreadyInstalled. *)
C4_AllOrNothing ==
    /\ [](last.op \in StepOps /\ last.err # Ok => imp.pc = "error")
    /\ [][imp.pc = "error" =>
            /\ last'.op = "rollback"
            /\ db' = txn
            /\ ~find_by_hash(db', hash(imp.pkg))]_vars
    /\ [](/\ last.op = "begin"
          /\ \E k \in DOMAIN PriorImports : PriorImports[k].pkg = last.pkg
          /\ \A k \in DOMAIN PriorImports :
                PriorImports[k].pkg = last.pkg =>
                    PriorImports[k].outcome = "rolled back"
          => last.err = Ok)

\* An archive whose recorded import failed and was rolled back is accepted.
C4_Witness ==
    /\ last.op = "begin"
    /\ last.err = Ok
    /\ \E k \in DOMAIN PriorImports :
         /\ PriorImports[k].pkg = last.pkg
         /\ PriorImports[k].outcome = "rolled back"
         /\ ~PriorImports[k].options.no_record

\* A func spec that import_change_set matches by name.
builtin_by_name(func_spec) ==
    \/ is_intrinsic(func_spec.name)
    \/ func_spec.name \in special_case_funcs
    \/ func_spec.is_from_builtin

\* What C6 says of the step that imported last.spec.
C6_Refreshed ==
    LET thing == tm_get(thing_map, NONE, last.spec.unique_id)
    IN /\ last.err = Ok
       /\ Len(db.funcs) = Len(last.pre.funcs)
       /\ thing.kind = "Func"
       /\ thing.id \in find_by_name(last.pre, last.spec.name)
       /\ \A f \in DOMAIN last.pre.funcs :
            [db.funcs[f] EXCEPT !.data = last.pre.funcs[f].data] = last.pre.funcs[f]
       /\ \A f \in DOMAIN last.pre.funcs : f # thing.id => db.funcs[f] = last.pre.funcs[f]

(* C6, as stated: for a func spec that is intrinsic, special-cased or marked
   from-builtin, when a Func of that name exists the import creates no Func,
   changes at most the metadata of that Func and maps the spec's unique_id to
   it in the ThingMap. *)
C6_Original ==
    /\ last.op = "func"
    /\ builtin_by_name(last.spec)
    /\ find_by_name(last.pre, last.spec.name) # {}
    => C6_Refreshed

(* C6, amended: the same, for a spec that carries data; so two packages that
   declare the same builtin Func by name, with data, resolve to the same Func
   id when one Func has that name. *)
C6_BuiltinMatchedByName ==
    /\ last.op = "func"
    /\ builtin_by_name(last.spec)
    /\ find_by_name(last.pre, last.spec.name) # {}
    /\ last.spec.data # NoStr
    => /\ C6_Refreshed
       /\ db.funcs[tm_get(thing_map, NONE, last.spec.unique_id).id].data = last.spec.data

\* si:identity, declared by a package, resolves to the intrinsic func.
C6_Witness ==
    /\ last.op = "func"
    /\ last.spec.name = "si:identity"
    /\ last.err = Ok
    /\ tm_get(thing_map, NONE, last.spec.unique_id) = Thing("Func", 1)
    /\ db.funcs[1].data = last.spec.data
    /\ Len(db.funcs) = Len(IntrinsicDb.funcs)

\* A func spec that goes to import_func by the second branch of the loop.
C7_Case ==
    /\ last.op = "func"
    /\ ~builtin_by_name(last.spec)
    /\ last.spec.unique_id \notin DOMAIN imp.options.skip_import_funcs

\* The ledger rows of the spec's hash and the func of the last of them.
C7_Rows == list_for_kind_and_hash(last.pre, "Func", hash(last.spec))
C7_Installed == last.pre.installed_assets[pop(C7_Rows)].id

\* Tiers 2 and 3, for a spec that is not deleted and found no ledger row.
C7_LowerTiers(needs_data) ==
    LET existing == tm_get(last.pre_tm, NONE, last.spec.unique_id)
        new_id == Len(last.pre.funcs) + 1
    IN /\ C7_Rows = {} /\ existing.kind = "Func" /\ ~last.spec.deleted =>
            /\ last.err = Ok
            /\ Len(db.funcs) = Len(last.pre.funcs)
            /\ last.spec.data # NoStr =>
                    /\ db.funcs[existing.id].data = last.spec.data
                    /\ db.funcs[existing.id].name = last.spec.name
            /\ tm_get(thing_map, NONE, last.spec.unique_id) = existing
       /\ /\ C7_Rows = {} /\ existing.kind # "Func" /\ ~last.spec.deleted
          /\ needs_data => last.spec.data # NoStr
          => /\ last.err = Ok
             /\ Len(db.funcs) = new_id
             /\ db.funcs[new_id].data = last.spec.data
             /\ tm_get(thing_map, NONE, last.spec.unique_id) = Thing("Func", new_id)

(* C7, as stated: a non-builtin func spec is resolved by the ledger (for its
   content hash) first, and then that Func is reused with no field changed
   and no FuncArgument created or updated; else by the ThingMap, and then it
   is updated in place under its id; else a Func is created; the ThingMap
   maps the unique_id to the resolved Func afterwards. *)
C7_Original ==
    C7_Case =>
        /\ C7_Rows # {} =>
            /\ last.err = Ok
            /\ db.funcs = last.pre.funcs
            /\ db.func_arguments = last.pre.func_arguments
            /\ tm_get(thing_map, NONE, last.spec.unique_id) =
                    Thing("Func", C7_Installed)
        /\ C7_LowerTiers(FALSE)

(* C7, amended: the Func of the ledger is reused when it is still visible
   (else the import fails with InstalledFuncMissing), with no field changed
   but builtin, which an import marked is_builtin sets, and no FuncArgument
   created or updated; else by the ThingMap, updated in place under its id;
   else, for a spec with data, a Func is created; the ThingMap maps the
   unique_id to the resolved Func afterwards. *)
C7_ThreeTiers ==
    C7_Case =>
        /\ C7_Rows # {} /\ func_visible(last.pre, C7_Installed) =>
            /\ last.err = Ok
            /\ Len(db.funcs) = Len(last.pre.funcs)
            /\ \A f \in DOMAIN db.funcs :
                 db.funcs[f] =
                    IF f = C7_Installed /\ imp.options.is_builtin
                    THEN [last.pre.funcs[f] EXCEPT !.builtin = TRUE]
                    ELSE last.pre.funcs[f]
            /\ db.func_arguments = last.pre.func_arguments
            /\ tm_get(thing_map, NONE, last.spec.unique_id) =
                    Thing("Func", C7_Installed)
        /\ C7_Rows # {} /\ ~func_visible(last.pre, C7_Installed) =>
            /\ last.err = "InstalledFuncMissing"
            /\ db = last.pre
        /\ C7_LowerTiers(TRUE)

\* A func of the ledger is reused by an import marked builtin, which marks it.
C7_Witness ==
    /\ C7_Case
    /\ C7_Rows # {}
    /\ last.err = Ok
    /\ ~last.pre.funcs[C7_Installed].builtin
    /\ db.funcs[C7_Installed].builtin
    /\ Len(db.funcs) = Len(last.pre.funcs)

\* q is p with the code of one func (the i-th) changed and nothing else.
CodeOnlyUpdate(p, q, i) ==
    /\ i \in DOMAIN p.funcs
    /\ Len(q.funcs) = Len(p.funcs)
    /\ p.funcs[i].data # q.funcs[i].data
    /\ p.funcs[i].data # NoStr /\ q.funcs[i].data # NoStr
    /\ q = [p EXCEPT !.funcs[i].data = q.funcs[i].data]

\* The finished import updated a committed package in the code of a func.
C8_Updates(k, i) ==
    /\ last.op = "return"
    /\ k \in DOMAIN imp.history /\ k < Len(imp.history)
    /\ imp.history[k].outcome = "committed"
    /\ CodeOnlyUpdate(imp.history[k].pkg, last.pkg, i)

\* The func of the update is a row the store had before, with the new code.
C8_InPlace(i) ==
    /\ Len(db.funcs) = Len(last.pre.funcs)
    /\ \E f \in DOMAIN last.pre.funcs :
         /\ db.funcs[f].name = last.pkg.funcs[i].name
         /\ db.funcs[f].data = last.pkg.funcs[i].data

(* C8, as stated: importing an update of an installed package that differs
   only in the code of one Func updates the Func row in place and creates no
   Func. *)
C8_Original ==
    last.op = "return" =>
        \A k \in DOMAIN imp.history, i \in DOMAIN last.pkg.funcs :
            C8_Updates(k, i) => C8_InPlace(i)

(* C8, amended: the same when the Func is one the importer matches by name
   (intrinsic, special-cased or marked from-builtin) and a visible Func has
   that name; a Func that is none of these gets a new row. *)
C8_UpdateByName ==
    last.op = "return" =>
        \A k \in DOMAIN imp.history, i \in DOMAIN last.pkg.funcs :
            /\ C8_Updates(k, i)
            /\ builtin_by_name(last.pkg.funcs[i])
            /\ find_by_name(last.pre, last.pkg.funcs[i].name) # {}
            => C8_InPlace(i)

\* The package of si:identity is updated: the intrinsic row has the new code.
C8_Witness ==
    /\ \E k \in DOMAIN imp.history : C8_Updates(k, 1)
    /\ last.pkg.funcs[1].name = "si:identity"
    /\ db.funcs[1].data = last.pkg.funcs[1].data
    /\ Len(db.funcs) = Len(IntrinsicDb.funcs)

----------------------------------------------------------------------------
(* Packages of schemas: SpecSchema *)

fR == FuncSpec("si:resourcePayloadToValue", "uR", "rp1", FALSE, FALSE,
               <<[name |-> "payload", unique_id |-> "uRp", deleted |-> FALSE]>>)
fW == FuncSpec("f:widget", "uW", "w1", FALSE, FALSE, <<>>)

PropColor ==
    [name |-> "color", kind |-> "String", data |-> TRUE,
     default_value |-> "red", func_unique_id |-> NoStr]

SocketSpec(name, unique_id, kind) ==
    [name |-> name, unique_id |-> unique_id, kind |-> kind, data |-> TRUE]

ActionFuncSpec(unique_id, kind) ==
    [func_unique_id |-> "uW", unique_id |-> unique_id, kind |-> kind,
     name |-> NoStr, deleted |-> FALSE]

VariantSpec(unique_id, props, action_funcs, sockets) ==
    [name |-> "v0", unique_id |-> unique_id, deleted |-> FALSE, data |-> TRUE,
     func_unique_id |-> "uW", props |-> props, action_funcs |-> action_funcs,
     sockets |-> sockets, si_prop_funcs |-> <<>>, root_prop_funcs |-> <<>>]

SchemaSpec(name, unique_id, variants) ==
    [name |-> name, unique_id |-> unique_id, deleted |-> FALSE, data |-> TRUE,
     variants |-> variants]

InOut == <<SocketSpec("in", "uIn", "Input"), SocketSpec("out", "uOut", "Output")>>

\* A schema with a prop, a create action and two sockets.
Widget ==
    SchemaSpec("Widget", "uS",
        <<VariantSpec("uV", <<PropColor>>, <<ActionFuncSpec("uP1", "Create")>>, InOut)>>)

\* A schema whose props have a default value and a function: the colour of
\* the domain, and root/si/name, whose default is the name of the schema; its
\* root/resource_value has a function too.
Painted ==
    SchemaSpec("Painted", "uPS",
        <<[VariantSpec("uPV", <<[PropColor EXCEPT !.func_unique_id = "uW"]>>,
                       <<>>, <<>>) EXCEPT
              !.si_prop_funcs = <<[path |-> "root/si/name",
                                   func_unique_id |-> "uW"]>>,
              !.root_prop_funcs = <<[path |-> "root/resource_value",
                                     func_unique_id |-> "uW"]>>]>>)

\* A schema whose variant names the colour of the domain twice.
Repainted ==
    SchemaSpec("Repainted", "uRS",
        <<VariantSpec("uRV", <<PropColor, [PropColor EXCEPT !.func_unique_id = "uW"]>>,
                      <<>>, <<>>)>>)

\* A schema with sockets only.
Gadget == SchemaSpec("Gadget", "uG", <<VariantSpec("uGV", <<>>, <<>>, InOut)>>)

\* A schema whose action funcs name the prototype uP2 twice.
Twice ==
    SchemaSpec("Widget", "uS",
        <<VariantSpec("uV", <<>>,
            <<ActionFuncSpec("uP1", "Create"), ActionFuncSpec("uP2", "Delete"),
              ActionFuncSpec("uP2", "Create")>>, <<>>)>>)

\* A schema with two actions of kind Other.
Others ==
    SchemaSpec("Gadget", "uG",
        <<VariantSpec("uGV", <<PropColor>>,
            <<ActionFuncSpec("uP1", "Other"), ActionFuncSpec("uP2", "Other")>>,
            <<>>)>>)

\* A schema whose variant spec carries no data, with a prop that has a
\* default value.
Bare ==
    SchemaSpec("Bare", "uB",
        <<[VariantSpec("uBV", <<PropColor>>, <<>>, <<>>) EXCEPT !.data = FALSE]>>)

SchemaPackages ==
    { Module("widgets", 1, <<fR, fW>>, <<Widget>>),
      Module("bare", 1, <<fR, fW>>, <<Bare>>),
      Module("widgets-again", 1, <<fR, fW>>, <<Widget>>),
      Module("gadgets", 1, <<fR, fW>>, <<Gadget>>),
      Module("gadgets-again", 1, <<fR, fW>>, <<Gadget>>),
      Module("twice", 1, <<fR, fW>>, <<Twice>>),
      Module("others", 1, <<fR, fW>>, <<Others>>),
      Module("no-payload", 1, <<fW>>, <<Gadget>>),
      Module("painted", 1, <<fW>>, <<Painted>>),
      Module("painted-again", 1, <<fW>>, <<Painted>>),
      Module("repainted", 1, <<fW>>, <<Repainted>>) }

SchemaOptions ==
    { DefaultOptions,
      [DefaultOptions EXCEPT !.is_builtin = TRUE],
      [DefaultOptions EXCEPT !.no_record = TRUE] }

BeginImportSchema == BeginImport(SchemaPackages, SchemaOptions, {FALSE}, {NONE})

NextSchema == BeginImportSchema \/ FuncStep \/ CreateStep \/ Return \/ Rollback

SpecSchema == InitImport /\ [][NextSchema]_vars

----------------------------------------------------------------------------
(* Claims about imports of schemas *)

\* The kinds of which a schema variant may have one prototype only.
SingleKinds == {"Create", "Delete", "Refresh"}

(* C2, as stated: whatever the importer's import_action_func and
   update_action_prototype did, every schema variant has at most one visible
   prototype of kind Create, at most one of kind Delete and at most one of
   kind Refresh. *)
C2_Original ==
    \A p, q \in DOMAIN db.action_prototypes :
        /\ ~db.action_prototypes[p].deleted
        /\ ~db.action_prototypes[q].deleted
        /\ db.action_prototypes[p].schema_variant_id =
               db.action_prototypes[q].schema_variant_id
        /\ db.action_prototypes[p].kind = db.action_prototypes[q].kind
        /\ db.action_prototypes[p].kind \in SingleKinds
        => p = q

\* The rows a table has got since the import began.
Created(table) == (Len(txn[table]) + 1) .. Len(db[table])

\* The content hashes of the specs of a kind the package in hand carries.
PkgHashes(kind) ==
    IF kind = "Func" THEN {hash(f) : f \in Range(imp.pkg.funcs)}
    ELSE IF kind = "SchemaVariant"
    THEN UNION {{hash(v) : v \in Range(sch.variants)} : sch \in Range(imp.pkg.schemas)}
    ELSE {hash(sch) : sch \in Range(imp.pkg.schemas)}

\* The import in hand wrote a row of the ledger for the entity.
Recorded(kind, id) ==
    \E a \in Created("installed_assets") :
        /\ db.installed_assets[a].kind = kind
        /\ db.installed_assets[a].id = id
        /\ db.installed_assets[a].installed_pkg_id = imp.installed_pkg_id
        /\ db.installed_assets[a].installed_pkg_id = Len(db.installed_pkgs)
        /\ db.installed_assets[a].hash \in PkgHashes(kind)

\* With no_record the import in hand wrote nothing into the ledger.
LedgerUntouched ==
    /\ db.installed_pkgs = txn.installed_pkgs
    /\ db.installed_assets = txn.installed_assets

\* The tables whose rows are of a kind the ledger has.
LedgerTables ==
    [Func |-> "funcs", Schema |-> "schemas", SchemaVariant |-> "schema_variants",
     SchemaVariantDefinition |-> "schema_variant_definitions"]

\* The other tables the importer of a package of schemas writes rows into.
OtherTables ==
    [FuncArgument |-> "func_arguments", Prop |-> "props", Socket |-> "sockets",
     ActionPrototype |-> "action_prototypes"]

(* C9, as stated: while an import runs without no_record, every row it has
   created, of whatever table, has a row of the ledger; with no_record it
   has written no InstalledPkg and no InstalledPkgAsset row. *)
C9_Original ==
    imp.pc # "idle" =>
        IF imp.options.no_record THEN LedgerUntouched
        ELSE /\ \A kind \in DOMAIN LedgerTables :
                    \A id \in Created(LedgerTables[kind]) : Recorded(kind, id)
             /\ \A kind \in DOMAIN OtherTables :
                    \A id \in Created(OtherTables[kind]) : Recorded(kind, id)

(* C9, amended: while an import runs without no_record, every Func, Schema,
   SchemaVariant and SchemaVariantDefinition it has created has a row of the
   ledger (kind, content hash of a spec of the package) -> id under the
   InstalledPkg of this import, and the FuncArguments, Props, Sockets and
   ActionPrototypes it has created have none; with no_record it has written
   no InstalledPkg and no InstalledPkgAsset row. *)
C9_LedgerKindsRecorded ==
    imp.pc # "idle" =>
        IF imp.options.no_record THEN LedgerUntouched
        ELSE /\ Len(db.installed_pkgs) = Len(txn.installed_pkgs) + 1
             /\ \A kind \in DOMAIN LedgerTables :
                    \A id \in Created(LedgerTables[kind]) : Recorded(kind, id)
             /\ \A a \in Created("installed_assets") :
                    db.installed_assets[a].kind \in DOMAIN LedgerTables

\* An import that records has created rows of each of the eight tables.
C9_Witness ==
    /\ imp.pc = "return"
    /\ ~imp.options.no_record
    /\ \A kind \in DOMAIN LedgerTables : Created(LedgerTables[kind]) # {}
    /\ \A kind \in DOMAIN OtherTables : Created(OtherTables[kind]) # {}

\* Every func, schema and variant spec of the package has its content hash
\* in the ledger of the store d.
AllInLedger(pkg, d) ==
    /\ \A f \in Range(pkg.funcs) : list_for_kind_and_hash(d, "Func", hash(f)) # {}
    /\ \A sch \in Range(pkg.schemas) :
          /\ list_for_kind_and_hash(d, "Schema", hash(sch)) # {}
          /\ \A v \in Range(sch.variants) :
                list_for_kind_and_hash(d, "SchemaVariant", hash(v)) # {}

\* The tables C10 speaks of.
NoOpTables ==
    {"funcs", "schemas", "schema_variants", "props", "sockets", "action_prototypes"}

(* C10, as stated: an import of a package with another root hash whose func,
   schema and variant hashes were all in the ledger when it began ends
   without error, and has created no Func, Schema, SchemaVariant, Prop,
   Socket or ActionPrototype. *)
C10_Original ==
    (/\ last.op \in {"return", "rollback"}
     /\ last.pkg.schemas # <<>>
     /\ AllInLedger(last.pkg, last.pre)
     /\ ~find_by_hash(last.pre, hash(last.pkg)))
    => /\ last.op = "return"
       /\ \A t \in NoOpTables : Len(db[t]) = Len(last.pre[t])

----------------------------------------------------------------------------
(* Workspace backups: packages of kind WorkspaceBackup, whose change sets
   hold components and edges beside funcs and schemas. *)

fU == FuncSpec("si:unset", "uU", "intrinsic", FALSE, FALSE, <<>>)

\* an attribute function of two arguments, one named like the argument of fR
fP == FuncSpec("f:payload", "uP", "p1", FALSE, FALSE,
               <<[name |-> "payload", unique_id |-> "uPp", deleted |-> FALSE],
                 [name |-> "value", unique_id |-> "uPv", deleted |-> FALSE]>>)

BackupPackages ==
    \* the packages over the root prop tree of a variant
    LET Over(tree) ==
          LET Attr(path, parent, value, implicit_value) ==
                [path |-> path, parent_path |-> parent, key |-> NoStr,
                 index |-> NoIndex, value |-> value,
                 implicit_value |-> implicit_value, func_unique_id |-> "uU",
                 inputs |-> <<>>]
              Null == Json("Null", NoStr, {})
              \* an attribute for every prop of the root prop tree, the root first
              Base(root_value) ==
                [i \in DOMAIN tree |->
                    Attr(tree[i][1],
                         parent_path({tree[k][1] : k \in DOMAIN tree}, tree[i][1]),
                         IF tree[i][2] \in {"Object", "Map"}
                         THEN Json("Object", NoStr, {}) ELSE Null,
                         IF i = 1 THEN root_value ELSE NoValue)]
              \* ... where each path is named once: what a component sets takes
              \* the place of the attribute of the tree, or follows the tree
              Placed(base, extras) ==
                LET named(path) == {k \in DOMAIN extras : extras[k].path = path}
                    fresh(a) == \A i \in DOMAIN base : base[i].path # a.path
                IN [i \in DOMAIN base |->
                       IF named(base[i].path) = {} THEN base[i]
                       ELSE extras[CHOOSE k \in named(base[i].path) : TRUE]]
                   \o SelectSeq(extras, fresh)
              Component(unique_id, name, root_value, extras) ==
                [unique_id |-> unique_id, name |-> name, schema_name |-> "Widget",
                 variant_name |-> "v0", needs_destroy |-> FALSE, deleted |-> FALSE,
                 attributes |-> Placed(Base(root_value), extras)]
              Edge(unique_id, to, to_socket_name, from, from_socket_name) ==
                [unique_id |-> unique_id, to_component_unique_id |-> to,
                 from_component_unique_id |-> from, to_socket_name |-> to_socket_name,
                 from_socket_name |-> from_socket_name, deleted |-> FALSE]
              ChangeSet(name, components, edges) ==
                [name |-> name, funcs |-> <<fU, fR, fW>>, schemas |-> <<Widget>>,
                 components |-> components, edges |-> edges]
              \* a change set whose components have attribute functions with inputs
              Wiring(name, components) ==
                [name |-> name, funcs |-> <<fU, fR, fW, fP>>, schemas |-> <<Widget>>,
                 components |-> components, edges |-> <<>>]
              \* a change set that adds components and edges to what head has
              Draft(name, components, edges) ==
                [name |-> name, funcs |-> <<fU>>, schemas |-> <<>>,
                 components |-> components, edges |-> edges]
              Backup(name, workspace_pk, default_change_set, change_sets) ==
                [name |-> name, kind |-> "WorkspaceBackup",
                 created_at |-> TicksPerSecond,
                 funcs |-> <<>>, schemas |-> <<>>,
                 workspace_pk |-> workspace_pk, workspace_name |-> "ws",
                 default_change_set |-> default_change_set,
                 change_sets |-> change_sets]
              color(value) == Attr("root/domain/color", "root/domain", value, NoValue)
              \* a component whose attributes all fit the variant
              good(unique_id) ==
                Component(unique_id, "good", Json("Object", "g", {"domain"}),
                          << color(Json("String", "blue", {})) >>)
              \* one whose colour is a number and which names a prop the variant
              \* does not have
              odd(unique_id) ==
                Component(unique_id, "odd", Json("Object", "o", {"domain"}),
                          << color(Json("Number", "7", {})),
                             Attr("root/domain/size", "root/domain",
                                  Json("Number", "1", {}), NoValue) >>)
              \* one with a resource: a status that is a number, a payload that is
              \* an object, and the resource itself
              live(unique_id) ==
                Component(unique_id, "live", Json("Object", "l", {"domain", "resource"}),
                          << color(Null),
                             Attr("root/resource/status", "root/resource",
                                  Json("Number", "200", {}), NoValue),
                             Attr("root/resource/payload", "root/resource",
                                  Json("Object", "p", {"id"}), NoValue),
                             Attr("root/resource", "root", Json("Object", NoStr, {}),
                                  Json("Object", "res1", {"status", "payload"})) >>)
              \* one with a keyed attribute that has no parent
              keyed(unique_id) ==
                Component(unique_id, "keyed", NoValue,
                          << [Attr("root/code", NoStr, Json("Object", NoStr, {}), NoValue)
                                 EXCEPT !.key = "k"] >>)
              \* one with an indexed attribute that has no parent, at a path the
              \* variant has no prop at
              stray(unique_id) ==
                Component(unique_id, "stray", Json("Object", "s", {"domain"}),
                          << color(Null),
                             [Attr("root/domain/size", NoStr, Null, NoValue)
                                 EXCEPT !.index = 0],
                             Attr("root/domain/depth", "root/domain", Null, NoValue) >>)
              \* one with a key under a parent, which is left alone
              under(unique_id) ==
                Component(unique_id, "under", Json("Object", "u", {"domain"}),
                          << color(Null),
                             [Attr("root/domain/tags/0", "root/domain/tags", Null,
                                   NoValue) EXCEPT !.index = 0],
                             Attr("root/domain/depth", "root/domain", Null, NoValue) >>)
              \* one that is deleted
              gone(unique_id) == [good(unique_id) EXCEPT !.deleted = TRUE]
              \* one whose root has no implicit value and whose colour is
              \* computed by the function of that unique id
              plain(unique_id, func_unique_id) ==
                Component(unique_id, "plain", NoValue,
                          << [color(Json("String", "red", {}))
                                 EXCEPT !.func_unique_id = func_unique_id] >>)
              Input(name, kind, prop_path) ==
                [name |-> name, kind |-> kind, prop_path |-> prop_path]
              \* one whose colour is computed by a function from inputs
              wired(unique_id, func_unique_id, inputs) ==
                Component(unique_id, "wired", Json("Object", "w", {"domain"}),
                          << [color(Null) EXCEPT !.func_unique_id = func_unique_id,
                                                 !.inputs = inputs] >>)
              payload == Input("payload", "Prop", "root/resource/payload")
          IN { Backup("plain", "w1", NoStr,
                      <<ChangeSet("head", <<plain("uC1", "uW"), plain("uC2", "uZ")>>,
                                  <<>>)>>),
               Backup("unwired", "w1", NoStr,
                      <<Wiring("head", <<wired("uC1", "uR", <<payload>>),
                                         good("uC1")>>)>>),
               Backup("rewired", "w1", NoStr,
                      <<Wiring("head",
                               <<wired("uC1", "uP",
                                       <<payload, Input("value", "OutputSocket", NoStr)>>),
                                 wired("uC1", "uP",
                                       <<Input("value", "Prop", "root/si/name"),
                                         Input("payload", "Prop", "root/domain/nope")>>),
                                 wired("uC1", "uW",
                                       <<Input("value", "Prop", "root/si/name")>>)>>)>>),
               Backup("refunc", "w1", NoStr,
                      <<Wiring("head",
                               <<wired("uC1", "uR", <<payload>>),
                                 wired("uC1", "uP",
                                       <<Input("payload", "Prop", "root/si/name")>>)>>)>>),
               Backup("sockets-in", "w1", NoStr,
                      <<ChangeSet("head", <<good("uC1"), good("uC2")>>,
                                  <<Edge("uE0", "uC1", "input", "uC2", "output"),
                                    Edge("uE1", "uC1", "in", "uC2", "out")>>)>>),
               Backup("sockets-out", "w1", "main",
                      <<ChangeSet("main", <<good("uC1"), odd("uC2")>>,
                                  <<Edge("uE0", "uC1", "in", "uC2", "output"),
                                    Edge("uE1", "uC2", "in", "uC1", "out")>>)>>),
               Backup("endpoint", "w1", NoStr,
                      <<ChangeSet("head", <<good("uC1")>>,
                                  <<Edge("uE0", "uC1", "in", "uC9", "out"),
                                    Edge("uE1", "uC1", "in", "uC1", "out")>>)>>),
               Backup("two", "w1", NoStr,
                      <<ChangeSet("head", <<live("uC1"), odd("uC2")>>, <<>>),
                        Draft("draft", <<live("uC3"), good("uC4")>>,
                                  <<Edge("uE0", "uC3", "in", "uC4", "nope")>>)>>),
               Backup("three", "w1", "main",
                      <<Draft("a", <<good("uC3")>>, <<>>),
                        ChangeSet("main", <<good("uC1"), odd("uC2")>>, <<>>),
                        Draft("main", <<good("uC5")>>, <<>>),
                        Draft("b", <<good("uC3"), good("uC4")>>, <<>>)>>),
               Backup("undeleted", "w1", NoStr,
                      <<ChangeSet("head", <<good("uC1"), gone("uC1"), good("uC1"),
                                            gone("uC2")>>, <<>>)>>),
               Backup("edges-deleted", "w1", NoStr,
                      <<ChangeSet("head", <<good("uC1"), good("uC2")>>,
                                  <<[Edge("uE0", "uC1", "in", "uC2", "out")
                                        EXCEPT !.deleted = TRUE],
                                    Edge("uE1", "uC1", "in", "uC2", "out"),
                                    [Edge("uE1", "uC1", "in", "uC2", "out")
                                        EXCEPT !.deleted = TRUE],
                                    Edge("uE1", "uC1", "in", "uC2", "out")>>)>>),
               Backup("same", "w1", NoStr,
                      <<ChangeSet("head", <<good("uC1"), good("uC1")>>, <<>>)>>),
               Backup("stray", "w1", NoStr,
                      <<ChangeSet("head", <<under("uC1"), stray("uC2")>>, <<>>)>>),
               Backup("keyed", "w1", NoStr,
                      <<ChangeSet("head", <<keyed("uC1")>>, <<>>)>>),
               Backup("no-pk", NoStr, NoStr, <<ChangeSet("head", <<>>, <<>>)>>),
               Backup("no-default", "w1", "main", <<ChangeSet("head", <<>>, <<>>)>>) }
    IN Over(RootPropTree)

BeginImportBackup == BeginImport(BackupPackages, {DefaultOptions}, {FALSE}, {NONE})

NextBackup ==
    \/ BeginImportBackup
    \/ FuncStep
    \/ CreateStep
    \/ ComponentStep
    \/ EdgeStep
    \/ NextChangeSet
    \/ Return
    \/ Rollback

SpecBackup == InitImport /\ [][NextBackup]_vars

----------------------------------------------------------------------------
(* A builtin package, components on its schema, and a newer package that
   replaces the schema: SpecUpgrade *)

\* The number of bindings of functions the store may hold
MaxBindings == 2

\* The components and edges a user may have made before a package arrives.
MaxComponents == 2
MaxEdges == 1

\* The Widget of the newer package: its variant has no prop of its own.
WidgetV2 ==
    SchemaSpec("Widget", "uS",
        <<VariantSpec("uV", <<>>, <<ActionFuncSpec("uP1", "Create")>>, InOut)>>)

\* ... and the backup whose components have a resource
UpgradePackages ==
    { Module("widgets", 1, <<fR, fW>>, <<Widget>>),
      Module("widgets", 2, <<fR, fW>>, <<WidgetV2, Gadget>>) }
        \cup {p \in BackupPackages : p.name = "two"}

UpgradeOptions ==
    { DefaultOptions, [DefaultOptions EXCEPT !.is_builtin = TRUE] }

\* ctx is on head or in a change set of the workspace
BeginImportUpgrade ==
    BeginImport(UpgradePackages, UpgradeOptions, {TRUE},
                {NONE} \cup DOMAIN db.change_sets)

\* Between imports a user puts a component of an installed variant on the
\* diagram (Component::new).
UserCreateComponent ==
    /\ imp.pc = "idle"
    /\ Len(db.components) < MaxComponents
    /\ \E v \in DOMAIN db.schema_variants :
         /\ variant_visible(db, v)
         /\ db' = Component_new(db, "c", v).db
         /\ last' = [op |-> "component", schema_variant_id |-> v, pre |-> db]
    /\ UNCHANGED <<thing_map, imp, txn>>

\* ... and connects the output socket of one component to the input socket
\* of another (Edge::new_for_connection).
UserConnect ==
    /\ imp.pc = "idle"
    /\ Len(db.edges) < MaxEdges
    /\ \E head, tail \in DOMAIN db.components :
         /\ head # tail
         /\ component_visible(db, head)
         /\ component_visible(db, tail)
         /\ \E to_socket \in
                {find_by_name_for_edge_kind_and_node(db, "in", "Input", head)},
               from_socket \in
                {find_by_name_for_edge_kind_and_node(db, "out", "Output", tail)} :
              /\ to_socket # NONE
              /\ from_socket # NONE
              /\ db' = Edge_new_for_connection(db, head, to_socket, tail,
                                               from_socket).db
              /\ last' = [op |-> "edge", head |-> head, tail |-> tail, pre |-> db]
    /\ UNCHANGED <<thing_map, imp, txn>>

NextUpgrade ==
    \/ BeginImportUpgrade
    \/ FuncStep
    \/ UpgradeStep
    \/ ReimportStep
    \/ CreateStep
    \/ ComponentStep
    \/ EdgeStep
    \/ NextChangeSet
    \/ Return
    \/ Rollback
    \/ UserCreateComponent
    \/ UserConnect

SpecUpgrade == InitImport /\ [][NextUpgrade]_vars

\* The place of a stage in the declared order.
StageRank == [func |-> 1, schema |-> 2, component |-> 3, edge |-> 4]

(* C5, as stated: in the order in which one import_change_set call imports
   things, no schema comes before a func, no component before a schema and
   no edge before a component, the schema-upgrade path included. *)
C5_Original ==
    \A i, j \in DOMAIN imp.log :
        i < j => StageRank[imp.log[i]] <= StageRank[imp.log[j]]

----------------------------------------------------------------------------
(* Direct callers of the ActionPrototype API: SpecAction *)

\* The schema variants and the funcs the callers of SpecAction name.
VariantIds == {1, 2}
ActionFuncIds == {1}

InitAction ==
    /\ db = EmptyDb
    /\ thing_map = EmptyThingMap
    /\ imp = ImpIdle
    /\ txn = EmptyDb
    /\ last = NoCall

\* ActionPrototype::new(ctx, func_id, kind, context)
CallNew ==
    /\ \E kind \in ActionKind, sv \in VariantIds, func_id \in ActionFuncIds :
         LET r == ActionPrototype_new(db, func_id, kind, sv)
         IN /\ Len(r.db.action_prototypes) <= MaxPrototypes
            /\ db' = r.db
            /\ last' = [op |-> "new", kind |-> kind, schema_variant_id |-> sv,
                        id |-> r.val, err |-> r.err, pre |-> db]
    /\ UNCHANGED <<thing_map, imp, txn>>

\* prototype.set_kind_checked(ctx, kind) on a visible prototype
CallSetKindChecked ==
    /\ \E id \in DOMAIN db.action_prototypes, kind \in ActionKind :
         /\ ~db.action_prototypes[id].deleted
         /\ LET r == set_kind_checked(db, id, kind)
            IN /\ db' = r.db
               /\ last' = [op |-> "set_kind_checked", kind |-> kind,
                           schema_variant_id |->
                               db.action_prototypes[id].schema_variant_id,
                           id |-> id, err |-> r.err, pre |-> db]
    /\ UNCHANGED <<thing_map, imp, txn>>

\* prototype.delete_by_id(ctx): the row stops being visible
CallDelete ==
    /\ \E id \in DOMAIN db.action_prototypes :
         /\ ~db.action_prototypes[id].deleted
         /\ db' = [db EXCEPT !.action_prototypes[id].deleted = TRUE]
         /\ last' = [op |-> "delete_by_id", kind |-> db.action_prototypes[id].kind,
                     schema_variant_id |->
                         db.action_prototypes[id].schema_variant_id,
                     id |-> id, err |-> Ok, pre |-> db]
    /\ UNCHANGED <<thing_map, imp, txn>>

NextAction == CallNew \/ CallSetKindChecked \/ CallDelete

SpecAction == InitAction /\ [][NextAction]_vars

(* C1: ActionPrototype::new for a variant that already has a visible
   prototype of the same kind fails with MultipleOfSameKind when the kind is
   Create, Delete or Refresh, and creates no row then; with kind Other it
   never fails this check and creates the row. *)
C1_NewRejectsSameKind ==
    last.op = "new" =>
        LET dup == OfKind(last.pre, last.schema_variant_id, last.kind) # {}
        IN /\ (last.kind # "Other" /\ dup) =>
                (last.err = "MultipleOfSameKind" /\ db = last.pre)
           /\ last.kind = "Other" =>
                /\ last.err = Ok
                /\ Len(db.action_prototypes) = Len(last.pre.action_prototypes) + 1
                /\ db.action_prototypes[last.id].kind = "Other"

\* A second Create is refused for a variant that was given two Others.
C1_Witness ==
    /\ last.op = "new"
    /\ last.kind = "Create"
    /\ last.err = "MultipleOfSameKind"
    /\ Cardinality(OfKind(db, last.schema_variant_id, "Other")) >= 2
    /\ Cardinality(OfKind(db, last.schema_variant_id, "Create")) = 1

----------------------------------------------------------------------------
(* Edges of a package *)

\* Does the variant of a component have a socket of this name and kind
HasSocket(d, component_id, name, kind) ==
    \E i \in DOMAIN d.sockets :
        /\ d.sockets[i].schema_variant_id = d.components[component_id].schema_variant_id
        /\ d.sockets[i].name = name
        /\ d.sockets[i].kind = kind

\* The edge spec of the step is not deleted and not in the ThingMap
NewEdge ==
    /\ last.op = "import_edge"
    /\ ~last.spec.deleted
    /\ tm_get(last.pre_tm, last.change_set_pk, last.spec.unique_id).kind # "Edge"

\* An endpoint component of the edge spec of the step, by its unique id
Endpoint(unique_id) == tm_get(last.pre_tm, last.change_set_pk, unique_id)

\* The step returned this skip, made no edge and left the ThingMap alone
Skipped(skip) ==
    /\ last.err = Ok
    /\ last.val = skip
    /\ db.edges = last.pre.edges
    /\ thing_map = last.pre_tm

\* C11: for a non-deleted edge spec that is not in the ThingMap, import_edge
\* fails with MissingComponentForEdge when an endpoint component is not in
\* the ThingMap; otherwise it returns the skip MissingInputSocket when the
\* head node has no input socket of the name, else MissingOutputSocket when
\* the tail node has no output socket of the name; a skip makes no edge,
\* leaves the ThingMap unchanged and raises no error.
C11_EdgeOutcome ==
    NewEdge =>
        IF \/ Endpoint(last.spec.to_component_unique_id).kind # "Component"
           \/ Endpoint(last.spec.from_component_unique_id).kind # "Component"
        THEN last.err = "MissingComponentForEdge"
        ELSE IF ~HasSocket(last.pre, Endpoint(last.spec.to_component_unique_id).id,
                           last.spec.to_socket_name, "Input")
        THEN Skipped("MissingInputSocket")
        ELSE ~HasSocket(last.pre, Endpoint(last.spec.from_component_unique_id).id,
                        last.spec.from_socket_name, "Output")
             => Skipped("MissingOutputSocket")

\* An edge spec both of whose sockets are missing was skipped for its input
\* socket.
C11_Witness ==
    /\ NewEdge
    /\ Endpoint(last.spec.to_component_unique_id).kind = "Component"
    /\ Endpoint(last.spec.from_component_unique_id).kind = "Component"
    /\ ~HasSocket(last.pre, Endpoint(last.spec.to_component_unique_id).id,
                  last.spec.to_socket_name, "Input")
    /\ ~HasSocket(last.pre, Endpoint(last.spec.from_component_unique_id).id,
                  last.spec.from_socket_name, "Output")
    /\ Skipped("MissingInputSocket")

\* The edge spec of the step names a socket its endpoint's variant lacks
AbsentSocket ==
    /\ NewEdge
    /\ Endpoint(last.spec.to_component_unique_id).kind = "Component"
    /\ Endpoint(last.spec.from_component_unique_id).kind = "Component"
    /\ \/ ~HasSocket(last.pre, Endpoint(last.spec.to_component_unique_id).id,
                     last.spec.to_socket_name, "Input")
       \/ ~HasSocket(last.pre, Endpoint(last.spec.from_component_unique_id).id,
                     last.spec.from_socket_name, "Output")

EdgeSkipKinds == {"MissingInputSocket", "MissingOutputSocket"}

\* Everything of a change set of the returned package was imported into the
\* change set pk, but for the edges the result names as skipped; an edge spec
\* that is deleted has no edge to make.
ImportedBut(change_set, skips) ==
    /\ \A f \in Range(change_set.funcs) :
          tm_get(thing_map, skips.change_set_pk, f.unique_id).kind = "Func"
    /\ \A sch \in Range(change_set.schemas) :
          tm_get(thing_map, skips.change_set_pk, sch.unique_id).kind = "Schema"
    /\ \A c \in Range(change_set.components) :
          tm_get(thing_map, skips.change_set_pk, c.unique_id).kind = "Component"
    /\ \A e \in Range(change_set.edges) :
          \/ tm_get(thing_map, skips.change_set_pk, e.unique_id).kind = "Edge"
          \/ e.deleted
          \/ \E k \in DOMAIN skips.edge_skips :
                /\ skips.edge_skips[k].edge = e.unique_id
                /\ skips.edge_skips[k].skip \in EdgeSkipKinds

\* The places of the change sets of a workspace backup that the import walks:
\* the first of the default name and those of other names
WalkedPlaces(pkg) ==
    LET default == IF pkg.default_change_set = NoStr THEN "head"
                   ELSE pkg.default_change_set
        named == {k \in DOMAIN pkg.change_sets :
                     pkg.change_sets[k].name = default}
    IN  {k \in DOMAIN pkg.change_sets :
            k \in named => \A j \in named : k <= j}

\* C12: an edge spec of the package that names a socket the installed
\* variant lacks gets a MissingInputSocket or MissingOutputSocket skip, the
\* import goes on with the edge specs after it, and the import that returns
\* has imported every func, schema, component and other edge of the change
\* sets it walks.
C12_SkipGoesOn ==
    /\ AbsentSocket =>
          /\ last.val \in EdgeSkipKinds
          /\ last.err = Ok
          /\ imp.pc # "error"
          /\ \E k \in DOMAIN imp.cs.edges :
                /\ imp.cs.edges[k] = last.spec
                /\ k < Len(imp.cs.edges) => imp.pc = "edges" /\ imp.i = k
    /\ last.op = "return" /\ last.pkg.kind = "WorkspaceBackup" =>
          /\ Len(last.skips) = Cardinality(WalkedPlaces(last.pkg))
          /\ \A c \in WalkedPlaces(last.pkg) :
                \E k \in DOMAIN last.skips :
                    ImportedBut(last.pkg.change_sets[c], last.skips[k])

\* An import returned that skipped an edge and made the edge after it.
C12_Witness ==
    /\ last.op = "return"
    /\ last.pkg.kind = "WorkspaceBackup"
    /\ \E c \in Range(last.pkg.change_sets), k \in DOMAIN last.skips :
          /\ ImportedBut(c, last.skips[k])
          /\ Len(c.edges) = 2
          /\ last.skips[k].edge_skips # <<>>
          /\ last.skips[k].edge_skips[1].edge = c.edges[1].unique_id
          /\ tm_get(thing_map, last.skips[k].change_set_pk,
                    c.edges[2].unique_id).kind = "Edge"

----------------------------------------------------------------------------
(* Skips *)

\* Is a skip that a call of import_component or import_edge produced during
\* the import in the result the import returned
InResult(p) ==
    \E j \in DOMAIN last.skips :
        /\ last.skips[j].change_set_pk = p.change_set_pk
        /\ IF p.component = NoStr
           THEN \E k \in DOMAIN last.skips[j].edge_skips :
                    last.skips[j].edge_skips[k] = p.skip
           ELSE \E a \in DOMAIN last.skips[j].attribute_skips :
                    /\ last.skips[j].attribute_skips[a].name = p.component
                    /\ \E k \in DOMAIN last.skips[j].attribute_skips[a].skips :
                          last.skips[j].attribute_skips[a].skips[k] = p.skip

\* C13: every ImportAttributeSkip and ImportEdgeSkip that a call of
\* import_component or import_edge produced during an import is in the
\* result import_pkg_from_pkg returns; this includes the skips of the
\* re-import of captured components and edges on the schema-upgrade path and
\* those of a Module import.
C13_Original ==
    last.op = "return" => \A k \in DOMAIN last.produced : InResult(last.produced[k])

----------------------------------------------------------------------------
(* The resource subtree in a change set *)

\* The paths at and below root/resource
ResourceSubtree == {"root/resource"} \cup {"root/resource/" \o n : n \in PropNames}

\* The last step was a call of import_component in a change set other than
\* head, and the component it imported
ChangeSetImport ==
    /\ last.op \in {"import_component", "reimport"}
    /\ last.change_set_pk # NONE
    /\ tm_get(thing_map, last.change_set_pk,
              IF last.op = "reimport" THEN last.spec.comp_spec.unique_id
              ELSE last.spec.unique_id).kind = "Component"

ImportedId ==
    tm_get(thing_map, last.change_set_pk,
           IF last.op = "reimport" THEN last.spec.comp_spec.unique_id
           ELSE last.spec.unique_id).id

\* The attribute skips the call produced
AttributeSkips ==
    IF last.op = "reimport"
    THEN {last.skips[k].skip :
            k \in {j \in DOMAIN last.skips : last.skips[j].component # NoStr}}
    ELSE Range(last.val)

\* The row of the component before the call; a component the call made had
\* no resource, no value and the prototypes of its variant
RowBefore(id) ==
    IF id \in DOMAIN last.pre.components THEN last.pre.components[id]
    ELSE [resource |-> NoStr, root_value |-> NoValue, funcs |-> [p \in {} |-> NONE]]

ResourceKept(id) == db.components[id].resource = RowBefore(id).resource

\* No prototype of a prop at or below root/resource was set
PrototypesKept(id) ==
    \A p \in DOMAIN db.components[id].funcs \cap ResourceSubtree :
        /\ p \in DOMAIN RowBefore(id).funcs
        /\ db.components[id].funcs[p] = RowBefore(id).funcs[p]

\* The value written at the root, if any, holds nothing for root/resource
RootLeavesResource(id) ==
    \/ db.components[id].root_value = RowBefore(id).root_value
    \/ "resource" \notin db.components[id].root_value.keys

(* C14, as stated: a call of import_component in a change set other than
   head, the re-import of a captured component on the schema-upgrade path
   included, updates no attribute value at or below root/resource and does
   not set the resource of the component. *)
C14_Original ==
    ChangeSetImport =>
        /\ ResourceKept(ImportedId)
        /\ PrototypesKept(ImportedId)
        /\ RootLeavesResource(ImportedId)

\* C14: in a change set other than head import_component_attribute passes
\* over every attribute spec whose prop is at or below root/resource, with no
\* skip and no prototype set, and import_component sets the resource of the
\* component only on the re-import of a captured component on the
\* schema-upgrade path (force_resource_patch).
C14_ResourceInChangeSet ==
    ChangeSetImport =>
        /\ last.op = "import_component" => ResourceKept(ImportedId)
        /\ PrototypesKept(ImportedId)
        /\ \A skip \in AttributeSkips : skip.path \notin ResourceSubtree

\* A captured component that had a resource was re-imported in a change set:
\* its resource is set again and no prototype below root/resource is.
C14_Witness ==
    /\ ChangeSetImport
    /\ last.op = "reimport"
    /\ last.err = Ok
    /\ db.components[ImportedId].resource # NoStr
    /\ PrototypesKept(ImportedId)
    /\ \E k \in DOMAIN last.spec.comp_spec.attributes :
          last.spec.comp_spec.attributes[k].path \in ResourceSubtree \ {"root/resource"}

----------------------------------------------------------------------------
(* Values of another kind than the prop *)

\* The PropKind each shape of a JSON value stands for
KindOfShape ==
    [Array |-> "Array", Bool |-> "Boolean", Number |-> "Integer",
     Object |-> "Object", String |-> "String"]

\* The component spec the last call of import_component was given
ImportedSpec == IF last.op = "reimport" THEN last.spec.comp_spec ELSE last.spec

\* The prop an attribute spec of that call is for, NONE if the variant has
\* no such prop
TargetProp(attribute) ==
    LET variant == find_variant_by_names(last.pre, ImportedSpec.schema_name,
                                         ImportedSpec.variant_name)
    IN IF variant = NONE THEN NONE
       ELSE find_prop_by_path_opt(last.pre, variant, attribute.path)

\* The value of the attribute spec has a shape and the prop is of another kind
Mismatched(attribute) ==
    /\ TargetProp(attribute) # NONE
    /\ attribute.value.json \in DOMAIN KindOfShape
    /\ KindOfShape[attribute.value.json] #
          (IF last.pre.props[TargetProp(attribute)].kind \in {"Map", "Object"}
           THEN "Object" ELSE last.pre.props[TargetProp(attribute)].kind)

\* The call skipped the attribute spec as a KindMismatch
MismatchSkips(attribute) ==
    {skip \in AttributeSkips :
        skip.path = attribute.path /\ skip.skip = "KindMismatch"}

(* C15, as stated: a call of import_component_attribute for a value whose
   shape differs from the kind of the prop returns the skip KindMismatch and
   writes nothing, but for root/resource/payload; a value that is null or
   absent, or of the kind of the prop, is no mismatch. *)
C15_Original ==
    (last.op \in {"import_component", "reimport"} /\ last.err = Ok) =>
        \A attribute \in Range(ImportedSpec.attributes) :
            IF Mismatched(attribute) /\ attribute.path # "root/resource/payload"
            THEN /\ MismatchSkips(attribute) # {}
                 /\ \A skip \in MismatchSkips(attribute) : ~skip.wrote
            ELSE MismatchSkips(attribute) = {}

\* C15: when the shape of the value of an attribute spec differs from the
\* kind of the target prop (Map counted as Object, number as Integer),
\* import_component_attribute returns the skip KindMismatch and writes
\* nothing for the attribute, without an error; the exceptions are the prop
\* root/resource/payload, for which the import proceeds, and in a change set
\* other than head every prop at or below root/resource, whose attribute
\* specs are passed over before the kinds are compared.  A null or absent
\* value is never a mismatch.
C15_KindMismatch ==
    (last.op \in {"import_component", "reimport"} /\ last.err = Ok) =>
        \A attribute \in Range(ImportedSpec.attributes) :
            IF /\ Mismatched(attribute)
               /\ attribute.path # "root/resource/payload"
               /\ ~(last.change_set_pk # NONE /\ attribute.path \in ResourceSubtree)
            THEN /\ MismatchSkips(attribute) # {}
                 /\ \A skip \in MismatchSkips(attribute) : ~skip.wrote
            ELSE MismatchSkips(attribute) = {}

\* A component was imported on head whose status was a number (skipped),
\* whose payload was an object (its prototype was set) and whose colour was
\* null (no skip).
C15_Witness ==
    /\ last.op = "import_component"
    /\ last.err = Ok
    /\ last.change_set_pk = NONE
    /\ \E a, b, c \in Range(last.spec.attributes) :
          /\ a.path = "root/resource/status"
          /\ Mismatched(a)
          /\ MismatchSkips(a) # {}
          /\ b.path = "root/resource/payload"
          /\ Mismatched(b)
          /\ MismatchSkips(b) = {}
          /\ tm_get(thing_map, NONE, last.spec.unique_id).kind = "Component"
          /\ b.path \in DOMAIN db.components[
                 tm_get(thing_map, NONE, last.spec.unique_id).id].funcs
          /\ c.value.json = "Null"
          /\ TargetProp(c) # NONE
          /\ last.pre.props[TargetProp(c)].kind = "String"
          /\ MismatchSkips(c) = {}

----------------------------------------------------------------------------
(* The order of an upgrade *)

\* The visible components of the variants, visible or not, of the schemas of
\* a name
ComponentsOn(d, schema_name) ==
    {c \in DOMAIN d.components :
        /\ component_visible(d, c)
        /\ d.schemas[d.schema_variants[d.components[c].schema_variant_id].schema_id].name
              = schema_name}

\* The component is on a visible variant of a visible schema that the store
\* did not hold before
OnFreshVariant(d, before, c) ==
    /\ variant_visible(d, d.components[c].schema_variant_id)
    /\ d.components[c].schema_variant_id \notin DOMAIN before.schema_variants
    /\ schema_visible(d, d.schema_variants[d.components[c].schema_variant_id].schema_id)

(* C16, as stated: a round of the upgrade loop has exported and deleted
   every component of the old schema with its edges, deleted the old variant
   and schema and imported the new variant, and has re-imported nothing; a
   captured component is re-imported only when every schema to upgrade went
   through that, and its re-import puts it on the new variant; when the
   import returns, every component that was on an old variant is on the new
   one. *)
C16_Original ==
    /\ (last.op = "upgrade" /\ last.err = Ok) =>
          /\ \A c \in list_for_schema(last.pre, last.entry.schema_id) :
                /\ db.components[c].deleted
                /\ \E k \in DOMAIN last.val.exported :
                      last.val.exported[k].comp_spec
                          = export_component(last.pre, c,
                                last.pre.schemas[last.entry.schema_id].name,
                                last.pre.schema_variants[last.entry.variant_id].name)
                /\ \A e \in list_for_component(last.pre, c) :
                      /\ db.edges[e].deleted
                      /\ \E k \in DOMAIN last.val.exported :
                            export_edge(last.pre, e)
                                \in Range(last.val.exported[k].edges)
          /\ Len(last.val.exported)
                = Cardinality(list_for_schema(last.pre, last.entry.schema_id))
          /\ ~variant_visible(db, last.entry.variant_id)
          /\ ~schema_visible(db, last.entry.schema_id)
          /\ \E v \in DOMAIN db.schema_variants \ DOMAIN last.pre.schema_variants :
                /\ variant_visible(db, v)
                /\ db.schema_variants[v].name
                      = last.pre.schema_variants[last.entry.variant_id].name
          /\ DOMAIN db.components = DOMAIN last.pre.components
    /\ imp.pc = "upgrade" =>
          /\ "component" \notin Range(imp.log)
          /\ DOMAIN db.components = DOMAIN txn.components
    /\ last.op = "reimport" =>
          /\ last.err = Ok
          /\ \A k \in DOMAIN imp.to_upgrade :
                /\ ~variant_visible(db, imp.to_upgrade[k].variant_id)
                /\ ~schema_visible(db, imp.to_upgrade[k].schema_id)
          /\ tm_get(thing_map, last.change_set_pk,
                    last.spec.comp_spec.unique_id).kind = "Component"
          /\ OnFreshVariant(db, txn,
                tm_get(thing_map, last.change_set_pk,
                       last.spec.comp_spec.unique_id).id)
    /\ (last.op = "return" /\ last.to_upgrade # <<>>) =>
          \A k \in DOMAIN last.to_upgrade :
             LET name == last.to_upgrade[k].schema_spec.name
             IN /\ Cardinality(ComponentsOn(db, name))
                      = Cardinality(ComponentsOn(last.pre, name))
                /\ \A c \in ComponentsOn(db, name) : OnFreshVariant(db, last.pre, c)
                /\ \A c \in ComponentsOn(last.pre, name) :
                      \E n \in ComponentsOn(db, name) :
                          db.components[n].name = last.pre.components[c].name

----------------------------------------------------------------------------
(* Default values and attribute functions of a variant *)

\* The variant a variant spec of the schema spec of the last step became
ImportedVariant(variant_spec) ==
    tm_get(thing_map, imp.change_set_pk, variant_spec.unique_id)

\* The prototype of the prop at a path of a variant has the func a unique id
\* stands for
Wired(variant_id, path, func_unique_id) ==
    /\ find_prop_by_path_opt(db, variant_id, path) # NONE
    /\ tm_get(thing_map, imp.change_set_pk, func_unique_id).kind = "Func"
    /\ db.props[find_prop_by_path_opt(db, variant_id, path)].func_id
          = tm_get(thing_map, imp.change_set_pk, func_unique_id).id

\* The default value of the prop at a path of a variant
DefaultAt(variant_id, path) ==
    db.props[find_prop_by_path_opt(db, variant_id, path)].default_value

\* C17: when a schema is imported, every prop of each of its variants for
\* which the spec names an attribute function (a prop function, an si-prop
\* function or a root-prop function) has that function on its prototype, and
\* the default value the spec gives it, or root/si/name gets, is the one that
\* was applied before.
C17_DefaultsBeforeFuncs ==
    (last.op = "create" /\ last.err = Ok) =>
        \A variant_spec \in Range(last.spec.variants) :
            ImportedVariant(variant_spec).kind = "SchemaVariant" =>
                LET id == ImportedVariant(variant_spec).id
                IN /\ \A prop \in Range(variant_spec.props) :
                         (prop.data /\ prop.func_unique_id # NoStr) =>
                            /\ Wired(id, "root/domain/" \o prop.name,
                                     prop.func_unique_id)
                            /\ (prop.kind = "String" /\ prop.default_value # NoStr)
                                  => DefaultAt(id, "root/domain/" \o prop.name)
                                        = prop.default_value
                   /\ \A f \in Range(variant_spec.si_prop_funcs
                                        \o variant_spec.root_prop_funcs) :
                         Wired(id, f.path, f.func_unique_id)
                   /\ DefaultAt(id, "root/si/name") = to_lowercase(last.spec.name)

\* A variant was imported whose colour has the default "red" and whose name
\* has the default "painted", both with the function of the spec.
C17_Witness ==
    /\ last.op = "create"
    /\ last.err = Ok
    /\ \E variant_spec \in Range(last.spec.variants) :
          /\ ImportedVariant(variant_spec).kind = "SchemaVariant"
          /\ \E prop \in Range(variant_spec.props) :
                /\ prop.func_unique_id # NoStr
                /\ prop.default_value = "red"
                /\ Wired(ImportedVariant(variant_spec).id,
                         "root/domain/" \o prop.name, prop.func_unique_id)
                /\ DefaultAt(ImportedVariant(variant_spec).id,
                             "root/domain/" \o prop.name) = "red"
          /\ variant_spec.si_prop_funcs # <<>>
          /\ Wired(ImportedVariant(variant_spec).id, "root/si/name",
                   variant_spec.si_prop_funcs[1].func_unique_id)
          /\ DefaultAt(ImportedVariant(variant_spec).id, "root/si/name")
                = to_lowercase(last.spec.name)

----------------------------------------------------------------------------
(* The Widget scenario *)

\* A package of one schema Widget, of one variant with the string prop color
\* of the domain whose default is "red", was imported into a workspace that
\* held nothing of its own, by an import that records what it installs
WidgetIntoEmpty ==
    /\ last.op \in {"return", "rollback"}
    /\ last.pre = IntrinsicDb
    /\ ~last.options.no_record
    /\ Len(last.pkg.schemas) = 1
    /\ last.pkg.schemas[1].name = "Widget"
    /\ Len(last.pkg.schemas[1].variants) = 1
    /\ \E k \in DOMAIN last.pkg.schemas[1].variants[1].props :
          last.pkg.schemas[1].variants[1].props[k]
              = [name |-> "color", kind |-> "String", data |-> TRUE,
                 default_value |-> "red", func_unique_id |-> NoStr]

\* The props at a path, over all variants
PropsAt(path) == {p \in DOMAIN db.props : db.props[p].path = path}

\* C18: importing, into an empty workspace, a package with one schema Widget
\* that has one variant with a string domain prop color with default "red"
\* and no components succeeds and leaves exactly one schema variant, exactly
\* one prop at root/domain/color, whose default value is "red", no component,
\* and a row of the ledger for the content hash of the schema that points at
\* the schema.
C18_WidgetScenario ==
    WidgetIntoEmpty =>
        /\ last.op = "return"
        /\ Len(db.schema_variants) = 1
        /\ variant_visible(db, 1)
        /\ Cardinality(PropsAt("root/domain/color")) = 1
        /\ \A p \in PropsAt("root/domain/color") :
              /\ db.props[p].default_value = "red"
              /\ db.props[p].kind = "String"
              /\ db.props[p].schema_variant_id = 1
        /\ db.components = <<>>
        /\ list_for_kind_and_hash(db, "Schema", hash(last.pkg.schemas[1])) # {}
        /\ \A a \in list_for_kind_and_hash(db, "Schema", hash(last.pkg.schemas[1])) :
              /\ schema_visible(db, db.installed_assets[a].id)
              /\ db.schemas[db.installed_assets[a].id].name = "Widget"

\* The import of such a package returned.
C18_Witness ==
    /\ WidgetIntoEmpty
    /\ last.op = "return"
    /\ Cardinality(PropsAt("root/domain/color")) = 1
    /\ Cardinality(list_for_kind_and_hash(db, "Schema",
                                          hash(last.pkg.schemas[1]))) = 1

----------------------------------------------------------------------------
(* ActionPrototype::run: SpecRun *)

\* A plausible slip: the payload of the result is not looked at.
clears_needs_destroy_whatever(needs_destroy, run_result) == needs_destroy

\* run, lines 411-416: component.needs_destroy() && run_result.payload.is_none()
clears_needs_destroy(needs_destroy, run_result) ==
    needs_destroy /\ "payload" \notin run_result.keys

\* What run returns beside the error: the result, NoValue for None, and
\* whether a resource-refreshed event was handed over for publication.
RunOut(d, e, run_result, published) ==
    Res(d, <<>>, e, [result |-> run_result, published |-> published])

\* ComponentView::new: the properties of the component, its resource among
\* them, as the argument of a function
ComponentView_new(d, component_id) ==
    Json("Object",
         id_string("component", component_id) \o "/" \o
             d.components[component_id].resource,
         {"properties"})

\* A plausible slip: the parts of the stream are left as they were emitted.
sort_by_key_emitted(logs) == logs

\* logs.sort_by_key(|log| log.timestamp): a stable sort, here by insertion
\* of each part behind the parts that are not later than it
RECURSIVE sort_by_key(_)
sort_by_key(logs) ==
    IF logs = <<>> THEN <<>>
    ELSE LET sorted == sort_by_key(SubSeq(logs, 1, Len(logs) - 1))
             log == logs[Len(logs)]
             before == {i \in DOMAIN sorted : sorted[i].timestamp <= log.timestamp}
         IN SubSeq(sorted, 1, Cardinality(before)) \o <<log>>
                \o SubSeq(sorted, Cardinality(before) + 1, Len(sorted))

\* A plausible slip: the event is published whatever set_resource reports.
resource_refreshed_always(changed) == TRUE

\* run, lines 418-427: if component.set_resource(..)? { publish }
resource_refreshed(changed) == changed

\* ActionPrototype::run.  return_value is what the function returns when it
\* is executed and output_stream what it emits; resource_written tells
\* whether the store takes the write of the resource, resource_changed what
\* set_resource then reports, and event_published whether the event can be
\* handed over.
ActionPrototype_run(d, id, component_id, return_value, output_stream, resource_written, resource_changed, event_published) ==
    LET \* lines 388-397
        logs == sort_by_key(output_stream)
        \* line 402
        with_logs(r) ==
          with_val(r, [result |-> r.val.result, published |-> r.val.published,
                       logs |-> IF r.val.result # NoValue
                                THEN [i \in DOMAIN logs |-> logs[i].message]
                                ELSE <<>>])
        \* lines 418-427
        write(d1, run_result) ==
          IF ~resource_written THEN RunOut(d1, "Component", NoValue, FALSE)
          ELSE IF ~resource_refreshed(resource_changed)
          THEN RunOut(d1, Ok, run_result, FALSE)
          ELSE IF ~event_published
          THEN RunOut(set_resource(d1, component_id, run_result.data),
                      "WsEvent", NoValue, FALSE)
          ELSE RunOut(set_resource(d1, component_id, run_result.data),
                      Ok, run_result, TRUE)
        \* lines 411-416
        clear(d1, run_result) ==
          IF clears_needs_destroy(d1.components[component_id].needs_destroy,
                                  run_result)
          THEN [d1 EXCEPT !.components[component_id].needs_destroy = FALSE]
          ELSE d1
        \* lines 388-430: what is done with the value of the binding
        returned(bound) ==
          IF bound.err # Ok THEN RunOut(d, "FuncBinding", NoValue, FALSE)
          \* lines 399 and 430: None
          ELSE IF bound.val.value = NoValue
          THEN RunOut(bound.db, Ok, NoValue, FALSE)
          \* line 401: serde_json::from_value of an ActionRunResult
          ELSE IF bound.val.value.json # "Object"
          THEN RunOut(bound.db, "SerdeJson", NoValue, FALSE)
          ELSE write(clear(bound.db, bound.val.value), bound.val.value)
    IN \* line 376: ComponentView::new
       IF component_id \notin DOMAIN d.components
       THEN with_logs(RunOut(d, "ComponentView", NoValue, FALSE))
       \* lines 378-386: FuncBinding::create_and_execute; the component of
       \* the model has no secret, so there is no before-function
       ELSE with_logs(returned(create_and_execute(
                                   d, ComponentView_new(d, component_id),
                                   d.action_prototypes[id].func_id, <<>>,
                                   return_value)))

\* What the action function of the model may return: nothing, a result with
\* a payload, a result without one, and a string, which is no result.
ReturnValues ==
    { NoValue,
      Json("Object", "created", {"status", "payload"}),
      Json("Object", "gone", {"status"}),
      Json("String", "oops", {}) }

\* What the action function of the model may emit: parts with a timestamp
\* and a message, in the order of emission; <<>> also stands for no stream.
OutputStreams ==
    LET Part(timestamp, message) == [timestamp |-> timestamp, message |-> message]
    IN { <<>>,
         <<Part(2, "x"), Part(1, "z"), Part(2, "w"), Part(1, "y"), Part(2, "x")>> }

\* A workspace with the schema Widget, its variant, the func f:widget and a
\* delete action of the variant that runs the func
RunDb ==
    ActionPrototype_new(
        SchemaVariant_new(
            create_schema(create_func(IntrinsicDb, fW).db, Widget).db,
            1, "v0", FALSE).db,
        Len(IntrinsicDb.funcs) + 1, "Delete", 1).db

InitRun ==
    /\ db = RunDb
    /\ thing_map = EmptyThingMap
    /\ imp = ImpIdle
    /\ txn = RunDb
    /\ last = NoCall

\* Component::new for the variant
RunNewComponent ==
    /\ Len(db.components) < MaxComponents
    /\ db' = Component_new(db, "c", 1).db
    /\ last' = [op |-> "component", pre |-> db]
    /\ UNCHANGED <<thing_map, imp, txn>>

\* A component that has a resource is deleted: it is marked to be destroyed
RunDeleteComponent ==
    /\ \E c \in DOMAIN db.components :
         /\ component_visible(db, c)
         /\ db.components[c].resource # NoStr
         /\ db' = [db EXCEPT !.components[c].deleted = TRUE,
                             !.components[c].needs_destroy = TRUE]
         /\ last' = [op |-> "delete_component", component_id |-> c, pre |-> db]
    /\ UNCHANGED <<thing_map, imp, txn>>

\* The func of the action is deleted
RunDeleteFunc ==
    /\ \E f \in DOMAIN db.funcs :
         /\ func_visible(db, f)
         /\ ~db.funcs[f].builtin
         /\ db' = [db EXCEPT !.funcs[f].deleted = TRUE]
         /\ last' = [op |-> "delete_func", func_id |-> f, pre |-> db]
    /\ UNCHANGED <<thing_map, imp, txn>>

\* prototype.run(ctx, component_id)
CallRun ==
    /\ Len(db.func_bindings) < MaxBindings
    /\ \E id \in DOMAIN db.action_prototypes,
          component_id \in 1 .. (Len(db.components) + 1),
          return_value \in ReturnValues, output_stream \in OutputStreams,
          resource_written \in BOOLEAN :
       \* set_resource reports a change or none when it does not fail, and
       \* an event is handed over, or cannot be, when there is one
       \E resource_changed \in IF resource_written THEN BOOLEAN ELSE {FALSE} :
       \E event_published \in IF resource_changed THEN BOOLEAN ELSE {TRUE} :
       \E r \in {ActionPrototype_run(db, id, component_id, return_value,
                                     output_stream, resource_written,
                                     resource_changed, event_published)} :
         /\ db' = r.db
         /\ last' = [op |-> "run", id |-> id, component_id |-> component_id,
                     return_value |-> return_value, err |-> r.err,
                     result |-> r.val.result, published |-> r.val.published,
                     output_stream |-> output_stream, logs |-> r.val.logs,
                     resource_changed |-> resource_changed,
                     pre |-> db]
    /\ UNCHANGED <<thing_map, imp, txn>>

NextRun == RunNewComponent \/ RunDeleteComponent \/ RunDeleteFunc \/ CallRun

SpecRun == InitRun /\ [][NextRun]_vars

\* The function of the prototype was executed and returned a value that is
\* a result
RunResult ==
    /\ func_visible(last.pre, last.pre.action_prototypes[last.id].func_id)
    /\ last.return_value # NoValue
    /\ last.return_value.json = "Object"

\* C19: ActionPrototype::run clears the needs-destroy flag of the component
\* exactly when the function returned a value, the component had the flag
\* set before the run and the result has no payload; in every other case the
\* flag is as before.
C19_ClearsNeedsDestroy ==
    (last.op = "run" /\ last.component_id \in DOMAIN last.pre.components) =>
        IF /\ RunResult
           /\ last.pre.components[last.component_id].needs_destroy
           /\ "payload" \notin last.return_value.keys
        THEN ~db.components[last.component_id].needs_destroy
        ELSE db.components[last.component_id].needs_destroy
                = last.pre.components[last.component_id].needs_destroy

\* A run on a component to be destroyed returned a result without payload
\* and the flag is cleared.
C19_Witness ==
    /\ last.op = "run"
    /\ last.err = Ok
    /\ last.component_id \in DOMAIN last.pre.components
    /\ last.pre.components[last.component_id].needs_destroy
    /\ last.result # NoValue
    /\ "payload" \notin last.result.keys
    /\ ~db.components[last.component_id].needs_destroy

\* The failures of run that C20 names
NamedFailures == {"ComponentView", "ComponentNotFound", "FuncBinding", "SerdeJson", "Component"}

(* C20, as stated: when ActionPrototype::run fails for a missing Func, a
   missing Component, a return value that does not deserialize or a failure
   while writing the resource, the store is as before the call, the resource
   and the needs-destroy flag of the component included, and no
   resource-refreshed event is published. *)
C20_Original ==
    (last.op = "run" /\ last.err \in NamedFailures) =>
        /\ db = last.pre
        /\ ~last.published

----------------------------------------------------------------------------
(* Bindings of functions: SpecBinding.  Packages with sockets are imported,
   and between two imports functions are bound and executed. *)

BindingPackages ==
    { Module("gadgets", 1, <<fR, fW>>, <<Gadget>>),
      Module("widgets", 1, <<fR, fW>>, <<Widget>>),
      Module("no-payload", 1, <<fW>>, <<Gadget>>) }

BeginImportBinding == BeginImport(BindingPackages, {DefaultOptions}, {FALSE}, {NONE})

\* The arguments and before-functions a caller binds: those of the
\* importer, other arguments, and the same arguments after a secret
BindingInputs ==
    { [args |-> Json("Object", "null", {"identity"}), before |-> <<>>],
      [args |-> Json("Object", "x", {"identity"}), before |-> <<>>],
      [args |-> Json("Object", "null", {"identity"}), before |-> <<"secret">>] }

\* What the runtime may return
BindingValues == { Json("Null", "null", {}), Json("String", "a", {}) }

\* The funcs a caller binds: si:identity, f:widget and one that is not there
BindingFuncs(d) ==
    find_by_name(d, "si:identity") \cup find_by_name(d, "f:widget")
        \cup {Len(d.funcs) + 1}

\* FuncBinding::create_and_execute, called outside an import
CallCreateAndExecute ==
    /\ imp.pc = "idle"
    /\ Len(db.func_bindings) < MaxBindings
    /\ \E func_id \in BindingFuncs(db), input \in BindingInputs,
          return_value \in BindingValues :
       \E r \in {create_and_execute(db, input.args, func_id, input.before,
                                    return_value)} :
         /\ db' = r.db
         /\ last' = [op |-> "bind", func_id |-> func_id, args |-> input.args,
                     before |-> input.before, err |-> r.err,
                     binding_id |-> r.val.binding_id, value |-> r.val.value,
                     executed |-> r.val.executed, pre |-> db]
    /\ UNCHANGED <<thing_map, imp, txn>>

NextBinding ==
    \/ BeginImportBinding
    \/ FuncStep
    \/ CreateStep
    \/ Return
    \/ Rollback
    \/ CallCreateAndExecute

SpecBinding == InitImport /\ [][NextBinding]_vars

\* The bindings of the store that were made for a func, its arguments and
\* its before-functions
Persisted(d, func_id, args, before) ==
    {b \in DOMAIN d.func_bindings :
        /\ d.func_bindings[b].func_id = func_id
        /\ d.func_bindings[b].args = args
        /\ d.func_bindings[b].before = before}

\* The func of a binding is no action
NonAction(d, func_id) ==
    func_visible(d, func_id) /\ backend_kind(d.funcs[func_id].data) # "JsAction"

\* C21: a func that is no action is executed once for its arguments and
\* before-functions.  No two bindings of the store are of the same func,
\* arguments and before-functions; a call that finds a binding of its func,
\* arguments and before-functions in the store leaves the store as it is
\* and returns the value persisted with that binding, and a call that finds
\* none invokes the runtime once; the import of a schema persists at most
\* one binding, however many sockets it creates.
C21_ExecutedOnce ==
    /\ \A b, c \in DOMAIN db.func_bindings :
          (/\ b # c
           /\ NonAction(db, db.func_bindings[b].func_id)
           /\ db.func_bindings[b].args = db.func_bindings[c].args
           /\ db.func_bindings[b].before = db.func_bindings[c].before)
          => db.func_bindings[b].func_id # db.func_bindings[c].func_id
    /\ (last.op = "bind" /\ NonAction(last.pre, last.func_id)) =>
          /\ last.err = Ok
          /\ IF Persisted(last.pre, last.func_id, last.args, last.before) = {}
             THEN /\ last.executed
                  /\ Len(db.func_bindings) = Len(last.pre.func_bindings) + 1
             ELSE /\ ~last.executed
                  /\ db = last.pre
                  /\ last.binding_id \in Persisted(last.pre, last.func_id,
                                                   last.args, last.before)
                  /\ last.value = last.pre.func_bindings[last.binding_id].value
    /\ last.op = "create" =>
          /\ Len(db.func_bindings) <= Len(last.pre.func_bindings) + 1
          /\ Persisted(last.pre, func_by_name(last.pre, "si:identity"),
                       Json("Object", "null", {"identity"}), <<>>) # {}
                => db.func_bindings = last.pre.func_bindings

\* A second call with the arguments of an earlier one was answered from the
\* store although the runtime would have returned another value, and before
\* it an import created two sockets with one binding.
C21_Witness ==
    /\ last.op = "bind"
    /\ NonAction(last.pre, last.func_id)
    /\ ~last.executed
    /\ last.args = Json("Object", "null", {"identity"})
    /\ last.value = Json("Null", "null", {})
    /\ Len(db.sockets) >= 2
    /\ Cardinality(Persisted(db, last.func_id, last.args, last.before)) = 1

----------------------------------------------------------------------------
(* The bindings of an action *)

\* ActionPrototype::run came to bind the func of the prototype
RunBound ==
    /\ last.op = "run"
    /\ last.component_id \in DOMAIN last.pre.components
    /\ func_visible(last.pre, last.pre.action_prototypes[last.id].func_id)

\* The bindings an earlier run persisted for the func, the component view
\* and the before-functions of the last run
EarlierRuns ==
    Persisted(last.pre, last.pre.action_prototypes[last.id].func_id,
              ComponentView_new(last.pre, last.component_id), <<>>)

\* C22: every ActionPrototype::run that binds its func invokes the runtime,
\* whatever earlier runs persisted: the store holds one binding more than
\* before, the new binding carries what the runtime returned to this run,
\* and a result that is returned is that value.
C22_ActionNeverServed ==
    RunBound =>
      /\ last.err # "FuncBinding"
      /\ Len(db.func_bindings) = Len(last.pre.func_bindings) + 1
      /\ db.func_bindings[Len(db.func_bindings)] =
            [func_id |-> last.pre.action_prototypes[last.id].func_id,
             args |-> ComponentView_new(last.pre, last.component_id),
             before |-> <<>>, value |-> last.return_value]
      /\ last.result \in {NoValue, last.return_value}

\* A run after an earlier run of the same func, component view and
\* before-functions that had returned another value: the result of the run
\* is the value of this run.
C22_Witness ==
    /\ RunBound
    /\ \E b \in EarlierRuns :
          last.pre.func_bindings[b].value # last.return_value
    /\ last.err = Ok
    /\ last.result = last.return_value
    /\ last.result # NoValue

----------------------------------------------------------------------------
(* Reads of attribute values: SpecRead *)

\* AttributeReadContext: a prop or a provider, and a component; NONE is unset
ReadContext(prop_id, internal_provider_id, external_provider_id, component_id) ==
    [prop_id |-> prop_id, internal_provider_id |-> internal_provider_id,
     external_provider_id |-> external_provider_id,
     component_id |-> component_id]

\* The rows of a context, taken exactly
values_at(d, context) ==
    {i \in DOMAIN d.attribute_values : d.attribute_values[i].context = context}

\* AttributeValue::find_for_context: the row of the context with its
\* component; without one, the row of the context with the component cleared
\* (the default of the schema); NONE without either.
AttributeValue_find_for_context(d, context) ==
    LET least(hits) == IF hits = {} THEN NONE
                       ELSE CHOOSE i \in hits : \A j \in hits : i <= j
        default(scoped) ==
          IF scoped # NONE THEN scoped
          ELSE least(values_at(d, [context EXCEPT !.component_id = NONE]))
    IN default(least(values_at(d, context)))

\* AttributeValue::update_for_context as far as reads see it: the value of
\* the row of the context is set, and the row is made when there is none.
AttributeValue_set(d, context, value) ==
    LET put(hits) ==
          IF hits = {}
          THEN [d EXCEPT !.attribute_values =
                   Append(@, [context |-> context, value |-> value])]
          ELSE [d EXCEPT !.attribute_values[CHOOSE i \in hits : TRUE].value = value]
    IN put(values_at(d, context))

\* SchemaVariant::find_root_child_implicit_internal_provider: a prop has one
\* implicit internal provider, which the model numbers like the prop.
find_root_child_implicit_internal_provider(d, schema_variant_id, root_prop_child) ==
    find_prop_by_path_opt(d, schema_variant_id, "root/" \o root_prop_child)

\* A plausible slip: the component is left as the default of the context.
code_map_read_context_of_schema(internal_provider_id, component_id) ==
    ReadContext(NONE, internal_provider_id, NONE, NONE)

\* list_code_generated, lines 45-49: the read context of the code map
code_map_attribute_read_context(internal_provider_id, component_id) ==
    ReadContext(NONE, internal_provider_id, NONE, component_id)

\* CodeLanguage::try_from accepts these formats
CodeLanguages == {"diff", "json", "string", "unknown", "yaml"}

\* serde_json::from_value::<HashMap<String, CodeGenerationEntry>>: the
\* entries of a code map by its content, each with its code and format,
\* NoStr for a field that is not set.  Other values are no code map.
CodeGenerationEntries(value) ==
    CASE value.data = "generated" ->
           {[key |-> "a", code |-> "x: 1", format |-> "yaml"],
            [key |-> "b", code |-> "", format |-> ""]}
      [] value.data = "strange" ->
           {[key |-> "a", code |-> NoStr, format |-> NoStr],
            [key |-> "b", code |-> "x", format |-> "cobol"]}
      [] OTHER -> {}

\* CodeView::new(language, code), NoStr for no code
CodeView_new(language, code) == [language |-> language, code |-> code]

\* Component::list_code_generated.  order is the order in which the hash map
\* yields its values, a list of the keys of the map.
list_code_generated(d, component_id, order) ==
    LET \* lines 64-88, one entry of the map
        view(value, r, key) ==
          LET entry == CHOOSE e \in CodeGenerationEntries(value) : e.key = key
          IN IF entry.format = NoStr \/ entry.code = NoStr THEN r
             ELSE IF entry.format # "" /\ entry.format \notin CodeLanguages
             THEN Res(r.db, r.tm, "CodeLanguage", <<>>)
             ELSE with_val(r, Append(r.val,
                      CodeView_new(IF entry.format = "" THEN "unknown"
                                   ELSE entry.format,
                                   IF entry.code = "" THEN NoStr ELSE entry.code)))
        \* lines 57-91
        views(value) ==
          IF value = NoValue THEN Res(d, <<>>, Ok, <<>>)
          ELSE IF value.json # "Object" THEN Res(d, <<>>, "SerdeJson", <<>>)
          ELSE ForEach(LAMBDA r, key : view(value, r, key),
                       Res(d, <<>>, Ok, <<>>),
                       SelectSeq(order, LAMBDA key :
                           \E e \in CodeGenerationEntries(value) : e.key = key))
        \* lines 45-56
        value_of(found) ==
          IF found = NONE THEN Res(d, <<>>, "NotFoundForReadContext", <<>>)
          ELSE views(d.attribute_values[found].value)
        \* lines 38-50
        read(provider) ==
          IF provider = NONE THEN Res(d, <<>>, "SchemaVariant", <<>>)
          ELSE value_of(AttributeValue_find_for_context(d,
                   code_map_attribute_read_context(provider, component_id)))
    IN \* lines 27-29
       IF ~component_visible(d, component_id)
       THEN Res(d, <<>>, "NotFound", <<>>)
       \* lines 30-33
       ELSE IF ~variant_visible(d, d.components[component_id].schema_variant_id)
       THEN Res(d, <<>>, "NoSchemaVariant", <<>>)
       ELSE read(find_root_child_implicit_internal_provider(
                     d, d.components[component_id].schema_variant_id, "code"))

\* A workspace with a schema variant and two components of it
ReadDb ==
    Component_new(
        Component_new(
            SchemaVariant_new(create_schema(IntrinsicDb, Widget).db,
                              1, "v0", FALSE).db,
            "c", 1).db,
        "d", 1).db

InitRead ==
    /\ db = ReadDb
    /\ thing_map = EmptyThingMap
    /\ imp = ImpIdle
    /\ txn = ReadDb
    /\ last = NoCall

\* The number of attribute values the store may hold
MaxValues == 2

\* The prop or provider of a context that is written or read: the implicit
\* internal provider of root/code, the prop root/code, the prop root/domain
ReadDestinations ==
    { ReadContext(NONE, find_prop_by_path_opt(ReadDb, 1, "root/code"), NONE, NONE),
      ReadContext(find_prop_by_path_opt(ReadDb, 1, "root/code"), NONE, NONE, NONE),
      ReadContext(find_prop_by_path_opt(ReadDb, 1, "root/domain"), NONE, NONE, NONE) }

\* The values of a context.  Those of the provider of root/code: not yet
\* populated, a code map, a code map with a format that is no language, and
\* a string; a prop has one value for the schema and one for each component.
ReadValues(context) ==
    IF context.internal_provider_id # NONE
    THEN { NoValue, Json("Object", "generated", {"a", "b"}),
           Json("Object", "strange", {"a", "b"}), Json("String", "oops", {}) }
    ELSE { Json("String", id_string("of", context.component_id), {}) }

\* A value is set for a context that is the default of the schema or
\* belongs to a component
WriteValue ==
    /\ \E destination \in ReadDestinations,
          component_id \in {NONE} \cup DOMAIN db.components :
       \E context \in {[destination EXCEPT !.component_id = component_id]} :
       \E value \in ReadValues(context) :
         /\ values_at(db, context) # {} \/ Len(db.attribute_values) < MaxValues
         /\ db' = AttributeValue_set(db, context, value)
         /\ last' = [op |-> "write", context |-> context]
    /\ UNCHANGED <<thing_map, imp, txn>>

\* AttributeValue::find_for_context(ctx, context)
CallFindForContext ==
    /\ \E destination \in ReadDestinations,
          component_id \in 0 .. (Len(db.components) + 1) :
       \E context \in {[destination EXCEPT !.component_id = component_id]} :
         /\ last' = [op |-> "find", context |-> context,
                     found |-> AttributeValue_find_for_context(db, context),
                     pre |-> db]
    /\ UNCHANGED <<db, thing_map, imp, txn>>

\* Component::list_code_generated(ctx, component_id)
CallListCodeGenerated ==
    /\ \E component_id \in 1 .. (Len(db.components) + 1),
          order \in {<<"a", "b">>, <<"b", "a">>} :
       \E r \in {list_code_generated(db, component_id, order)} :
         /\ last' = [op |-> "list_code_generated", component_id |-> component_id,
                     err |-> r.err, val |-> r.val, pre |-> db]
    /\ UNCHANGED <<db, thing_map, imp, txn>>

NextRead == WriteValue \/ CallFindForContext \/ CallListCodeGenerated

SpecRead == InitRead /\ [][NextRead]_vars

\* The rows a read of a context may return: those of the context itself,
\* and without any, those of the context with the component cleared
MostSpecific(d, context) ==
    IF values_at(d, context) # {} THEN values_at(d, context)
    ELSE values_at(d, [context EXCEPT !.component_id = NONE])

\* The read context of the code map of the component of the last call
CodeMapContext ==
    ReadContext(NONE, find_prop_by_path_opt(last.pre, 1, "root/code"), NONE,
                last.component_id)

\* C23: a read returns the row of its context and component when there is
\* one, otherwise the row of the context with no component (the default of
\* the schema), and nothing when there is neither; the row returned is of
\* the prop or provider of the read.  Component::list_code_generated reads
\* the code map of its component in this way, and without a row it fails
\* with NotFoundForReadContext and returns no value.
C23_MostSpecificRead ==
    /\ last.op = "find" =>
          /\ IF MostSpecific(last.pre, last.context) = {}
             THEN last.found = NONE
             ELSE last.found \in MostSpecific(last.pre, last.context)
          /\ last.found # NONE =>
                [last.pre.attribute_values[last.found].context
                    EXCEPT !.component_id = NONE] =
                [last.context EXCEPT !.component_id = NONE]
    /\ (last.op = "list_code_generated"
         /\ component_visible(last.pre, last.component_id)) =>
          /\ (last.err = "NotFoundForReadContext")
                = (MostSpecific(last.pre, CodeMapContext) = {})
          /\ last.err = "NotFoundForReadContext" => last.val = <<>>
          /\ \A i \in MostSpecific(last.pre, CodeMapContext) :
                /\ last.pre.attribute_values[i].value = NoValue
                      => last.err = Ok /\ last.val = <<>>
                /\ last.pre.attribute_values[i].value.json = "String"
                      => last.err = "SerdeJson"
                /\ last.pre.attribute_values[i].value.data = "generated"
                      => last.err = Ok /\ Len(last.val) = 2
                /\ last.pre.attribute_values[i].value.data = "strange"
                      => last.err = "CodeLanguage"

\* The code map of a component was read where the schema has a default and
\* the component a value of its own, and the value of the component was
\* returned.
C23_Witness ==
    /\ last.op = "list_code_generated"
    /\ component_visible(last.pre, last.component_id)
    /\ values_at(last.pre, CodeMapContext) # {}
    /\ \E i \in values_at(last.pre, [CodeMapContext EXCEPT !.component_id = NONE]) :
          last.pre.attribute_values[i].value = NoValue
    /\ last.err = Ok
    /\ Len(last.val) = 2

----------------------------------------------------------------------------
(* The root prop of a schema variant *)

\* The props of a variant that have no parent
RootsOf(d, schema_variant_id) ==
    {i \in DOMAIN d.props : /\ d.props[i].schema_variant_id = schema_variant_id
                            /\ d.props[i].parent_prop_id = NONE}

\* The props under a prop
ChildrenOf(d, prop_id) ==
    {i \in DOMAIN d.props : d.props[i].parent_prop_id = prop_id}

\* A prop and the props above it
RECURSIVE SelfAndAbove(_, _)
SelfAndAbove(d, prop_id) ==
    IF prop_id = NONE THEN {}
    ELSE {prop_id} \cup SelfAndAbove(d, d.props[prop_id].parent_prop_id)

\* The props of a variant that create_and_set_root_prop made: all but those
\* under root/domain and root/secrets, which a package fills
CreatedTree(d, schema_variant_id) ==
    {i \in DOMAIN d.props :
        /\ d.props[i].schema_variant_id = schema_variant_id
        /\ \A a \in SelfAndAbove(d, d.props[i].parent_prop_id) :
              d.props[a].path \notin {"root/domain", "root/secrets"}}

\* The direct children of the root prop, by path
RootChildPaths ==
    { "root/si", "root/domain", "root/secrets", "root/resource",
      "root/resource_value", "root/code", "root/qualification",
      "root/deleted_at" }

\* C24: every schema variant has one root prop, of kind Object and without
\* parent, which is the root_prop_id of the variant; the children of the
\* root are si, domain, secrets, resource, resource_value, code,
\* qualification and deleted_at, each once, si made before domain; every
\* Array or Map prop of the tree has one child, and every prop with children
\* is an Object, an Array or a Map.
C24_RootPropTree ==
    \A v \in DOMAIN db.schema_variants :
       LET root == db.schema_variants[v].root_prop_id
       IN /\ RootsOf(db, v) = {root}
          /\ db.props[root].kind = "Object"
          /\ {db.props[i].path : i \in ChildrenOf(db, root)} = RootChildPaths
          /\ Cardinality(ChildrenOf(db, root)) = Cardinality(RootChildPaths)
          /\ \A i, j \in ChildrenOf(db, root) :
                (db.props[i].path = "root/si" /\ db.props[j].path = "root/domain")
                   => i < j
          /\ \A i \in CreatedTree(db, v) :
                /\ db.props[i].kind \in {"Array", "Map"}
                      => Cardinality(ChildrenOf(db, i)) = 1
                /\ ChildrenOf(db, i) # {}
                      => db.props[i].kind \in {"Object", "Array", "Map"}

\* A package was imported that made a schema variant with props of its own
\* under the domain, in a workspace that had a variant already.
C24_Witness ==
    /\ last.op = "create"
    /\ last.err = Ok
    /\ Len(last.pre.schema_variants) >= 1
    /\ Len(db.schema_variants) > Len(last.pre.schema_variants)
    /\ \E i \in DOMAIN db.props :
          /\ db.props[i].schema_variant_id = Len(db.schema_variants)
          /\ is_descendant_of(db.props[i].path, "root/domain")

----------------------------------------------------------------------------
(* ValidationResolverContext (validation_resolver.rs): SpecContext.  The
   context under construction is the one object of this specification and
   is held where the other specifications hold the store. *)

UNSET_ID_VALUE == -1

\* ValidationResolverContext::new
ValidationResolverContext_new ==
    [prop_id |-> UNSET_ID_VALUE, component_id |-> UNSET_ID_VALUE,
     schema_id |-> UNSET_ID_VALUE, schema_variant_id |-> UNSET_ID_VALUE,
     system_id |-> UNSET_ID_VALUE]

prop_id(c) == c.prop_id
component_id(c) == c.component_id
schema_id(c) == c.schema_id
schema_variant_id(c) == c.schema_variant_id
system_id(c) == c.system_id

set_prop_id(c, id) == [c EXCEPT !.prop_id = id]

\* A plausible slip: the setter of the component writes the field above.
set_component_id_of_prop(c, id) == [c EXCEPT !.prop_id = id]

set_component_id(c, id) == [c EXCEPT !.component_id = id]
set_schema_id(c, id) == [c EXCEPT !.schema_id = id]
set_schema_variant_id(c, id) == [c EXCEPT !.schema_variant_id = id]
set_system_id(c, id) == [c EXCEPT !.system_id = id]

\* The ids a caller sets: the two of the test of the source and the unset one
ContextIds == {UNSET_ID_VALUE, 15, 22}

InitContext ==
    /\ db = ValidationResolverContext_new
    /\ thing_map = EmptyThingMap
    /\ imp = ImpIdle
    /\ txn = ValidationResolverContext_new
    /\ last = NoCall

\* let mut c = ValidationResolverContext::new()
CallContextNew ==
    /\ db' = ValidationResolverContext_new
    /\ last' = [op |-> "new", pre |-> db]
    /\ UNCHANGED <<thing_map, imp, txn>>

\* c.set_prop_id(id)
CallSetPropId ==
    /\ \E id \in ContextIds :
         /\ db' = set_prop_id(db, id)
         /\ last' = [op |-> "set_prop_id", id |-> id, pre |-> db]
    /\ UNCHANGED <<thing_map, imp, txn>>

\* c.set_component_id(id)
CallSetComponentId ==
    /\ \E id \in ContextIds :
         /\ db' = set_component_id(db, id)
         /\ last' = [op |-> "set_component_id", id |-> id, pre |-> db]
    /\ UNCHANGED <<thing_map, imp, txn>>

\* c.set_schema_id(id)
CallSetSchemaId ==
    /\ \E id \in ContextIds :
         /\ db' = set_schema_id(db, id)
         /\ last' = [op |-> "set_schema_id", id |-> id, pre |-> db]
    /\ UNCHANGED <<thing_map, imp, txn>>

\* c.set_schema_variant_id(id)
CallSetSchemaVariantId ==
    /\ \E id \in ContextIds :
         /\ db' = set_schema_variant_id(db, id)
         /\ last' = [op |-> "set_schema_variant_id", id |-> id, pre |-> db]
    /\ UNCHANGED <<thing_map, imp, txn>>

\* c.set_system_id(id)
CallSetSystemId ==
    /\ \E id \in ContextIds :
         /\ db' = set_system_id(db, id)
         /\ last' = [op |-> "set_system_id", id |-> id, pre |-> db]
    /\ UNCHANGED <<thing_map, imp, txn>>

NextContext ==
    \/ CallContextNew
    \/ CallSetPropId
    \/ CallSetComponentId
    \/ CallSetSchemaId
    \/ CallSetSchemaVariantId
    \/ CallSetSystemId

SpecContext == InitContext /\ [][NextContext]_vars

\* What the five getters return of a context
Getters(c) ==
    [prop_id |-> prop_id(c), component_id |-> component_id(c),
     schema_id |-> schema_id(c), schema_variant_id |-> schema_variant_id(c),
     system_id |-> system_id(c)]

\* The field a setter is named after
SetterField ==
    [set_prop_id |-> "prop_id", set_component_id |-> "component_id",
     set_schema_id |-> "schema_id",
     set_schema_variant_id |-> "schema_variant_id",
     set_system_id |-> "system_id"]

\* C25: the getters of a new ValidationResolverContext all return the unset
\* value -1, and after a setter the getter of its field returns the id that
\* was set while every other getter returns what it returned before.
C25_SettersFrame ==
    /\ last.op \in {"none", "new"} =>
          \A f \in DOMAIN Getters(db) : Getters(db)[f] = -1
    /\ last.op \in DOMAIN SetterField =>
          \A f \in DOMAIN Getters(db) :
             Getters(db)[f] = IF f = SetterField[last.op] THEN last.id
                              ELSE Getters(last.pre)[f]

\* The test of the source: component 15 and prop 22 are set one after the
\* other on a new context and both are read back, the rest being unset.
C25_Witness ==
    /\ last.op = "set_prop_id"
    /\ last.id = 22
    /\ Getters(last.pre) = [ValidationResolverContext_new EXCEPT !.component_id = 15]
    /\ component_id(db) = 15
    /\ prop_id(db) = 22
    /\ system_id(db) = UNSET_ID_VALUE

----------------------------------------------------------------------------
(* The deferred side effects of the prop-tree walk *)

\* The props the walk of import_schema_variant makes: those below root/domain
WalkProps(d) ==
    {i \in DOMAIN d.props :
        /\ d.props[i].parent_prop_id # NONE
        /\ d.props[d.props[i].parent_prop_id].path = "root/domain"}

\* The last step wrote the default value or the function of the prop
Applied(i) ==
    IF i \in DOMAIN last.pre.props
    THEN \/ db.props[i].default_value # last.pre.props[i].default_value
         \/ db.props[i].func_id # last.pre.props[i].func_id
    ELSE \/ db.props[i].default_value # NoStr
         \/ db.props[i].func_id # NONE

\* Every prop a variant spec of the schema spec of the last step gives the
\* variant is there
TreeWalked(variant_id) ==
    \A variant_spec \in Range(last.spec.variants) :
        \A prop \in Range(variant_spec.props) :
            find_prop_by_path_opt(db, variant_id,
                                  "root/domain/" \o prop.name) # NONE

\* C26: whenever the import of a schema spec, finished or failed, has written
\* the default value or the attribute function that the prop-tree walk queued
\* for a prop, all the props of the variant spec exist and the variant is
\* finalized; for a variant spec without data no queued effect is written to
\* a variant that is not finalized.
C26_FlushAfterFinalize ==
    last.op = "create" =>
        \A i \in WalkProps(db) :
            Applied(i) =>
                /\ db.schema_variants[db.props[i].schema_variant_id].finalized
                /\ TreeWalked(db.props[i].schema_variant_id)

\* The default "red" of the colour was written by the last step to a variant
\* it made, and an import before it, of the variant spec without data, ended
\* in an error.
C26_Witness ==
    /\ last.op = "create"
    /\ last.err = Ok
    /\ \E i \in WalkProps(db) :
          /\ i \notin DOMAIN last.pre.props
          /\ Applied(i)
          /\ db.props[i].default_value = "red"
          /\ db.props[i].schema_variant_id \notin DOMAIN last.pre.schema_variants
    /\ \E k \in DOMAIN imp.history :
          /\ imp.history[k].pkg.name = "bare"
          /\ imp.history[k].outcome = "rolled back"

----------------------------------------------------------------------------
(* Func specs that are marked deleted *)

\* The last step was a call of import_func for a func spec marked deleted
\* (the spec was not served by name and is not one the options skip)
DeletedSpecImported ==
    /\ last.op = "func"
    /\ last.spec.deleted
    /\ ~(/\ \/ is_intrinsic(last.spec.name)
             \/ last.spec.name \in special_case_funcs
             \/ last.spec.is_from_builtin
          /\ last.found # NONE
          /\ last.spec.data # NoStr)
    /\ \/ is_intrinsic(last.spec.name)
       \/ last.spec.name \in special_case_funcs
       \/ last.spec.is_from_builtin
       \/ last.spec.unique_id \notin DOMAIN imp.options.skip_import_funcs

\* The funcs the last step deleted
DeletedFuncs ==
    {f \in DOMAIN last.pre.funcs : ~last.pre.funcs[f].deleted /\ db.funcs[f].deleted}

\* What the ThingMap had for the spec of the last step
ExistingFunc == tm_get(last.pre_tm, imp.change_set_pk, last.spec.unique_id)

\* The func is referenced by what the import pass has made: an entry of its
\* ThingMap, or a row of the ledger for its installed package.
ReferencedInPass(f) ==
    \/ \E k \in DOMAIN last.pre_tm : last.pre_tm[k] = Thing("Func", f)
    \/ \E a \in DOMAIN last.pre.installed_assets :
          /\ last.pre.installed_assets[a].kind = "Func"
          /\ last.pre.installed_assets[a].id = f
          /\ last.pre.installed_assets[a].installed_pkg_id = imp.installed_pkg_id

\* The ledger had a row for the content hash of the spec of the last step
InLedger == list_for_kind_and_hash(last.pre, "Func", hash(last.spec)) # {}

(* C27, as stated: a func spec marked deleted deletes the existing Func only
   if that Func is not referenced elsewhere in the same import pass; with no
   existing Func in the ThingMap it creates nothing, deletes nothing and adds
   no ThingMap entry. *)
C27_Original ==
    DeletedSpecImported =>
        /\ \A f \in DeletedFuncs : ~ReferencedInPass(f)
        /\ ExistingFunc.kind # "Func" =>
              /\ db = last.pre
              /\ thing_map = last.pre_tm

\* C27: a func spec marked deleted deletes a Func only if the ledger has no
\* row for the content hash of the spec and that Func is the one the ThingMap
\* of the import pass has under the unique id of the spec; a deleted func
\* spec with no row of the ledger for its hash and no existing Func in the
\* ThingMap creates nothing, deletes nothing and adds no ThingMap entry.
C27_DeletedFuncSpec ==
    DeletedSpecImported =>
        /\ \A f \in DeletedFuncs :
              /\ ~InLedger
              /\ ExistingFunc = Thing("Func", f)
        /\ (~InLedger /\ ExistingFunc.kind # "Func") =>
              /\ db = last.pre
              /\ thing_map = last.pre_tm

\* The func f:a, made by a spec of the package before, was deleted by the
\* deleted spec that follows it.
C27_Witness ==
    /\ DeletedSpecImported
    /\ last.err = Ok
    /\ ~InLedger
    /\ ExistingFunc.kind = "Func"
    /\ DeletedFuncs = {ExistingFunc.id}
    /\ ReferencedInPass(ExistingFunc.id)

----------------------------------------------------------------------------
(* The tiers of the lookup below the funcs *)

\* The schema spec of the last step was found, in the ledger by its content
\* hash or in the ThingMap by its unique id
SchemaFound ==
    \/ list_for_kind_and_hash(last.pre, "Schema", hash(last.spec)) # {}
    \/ tm_get(last.pre_tm, imp.change_set_pk, last.spec.unique_id).kind = "Schema"

\* Every variant spec of the schema spec of the last step was found, in the
\* ledger by its content hash or in the ThingMap by its unique id
VariantsFound ==
    \A variant_spec \in Range(last.spec.variants) :
        \/ list_for_kind_and_hash(last.pre, "SchemaVariant",
                                  hash(variant_spec)) # {}
        \/ tm_get(last.pre_tm, imp.change_set_pk, variant_spec.unique_id).kind
              = "SchemaVariant"

\* The levels below the schema variant, by their tables
LowerLevels == {"props", "sockets", "action_prototypes"}

(* C28, as stated: the lookup of the funcs (ledger by content hash, then
   ThingMap, then create) is the lookup of every level below them: a schema
   spec that is found makes no schema, variant specs that are found make no
   variant, and below variants that are found, whose props, sockets and
   action prototypes are installed with them, no prop, socket or action
   prototype is made. *)
C28_Original ==
    last.op = "create" =>
        /\ SchemaFound => Len(db.schemas) = Len(last.pre.schemas)
        /\ VariantsFound =>
              /\ Len(db.schema_variants) = Len(last.pre.schema_variants)
              /\ \A t \in LowerLevels : Len(db[t]) = Len(last.pre[t])

----------------------------------------------------------------------------
(* The schemas to upgrade and the schemas to create: SpecClassify *)

\* A package of Widget, a package a second younger with another Widget and
\* Gadget, and one like it that is a tick younger than the first, which is
\* less than a second.
ClassifyPackages ==
    { Module("widgets", 1, <<fR, fW>>, <<Widget>>),
      Module("widgets", 2, <<fR, fW>>, <<WidgetV2, Gadget>>),
      [Module("widgets", 1, <<fR, fW>>, <<WidgetV2, Gadget>>)
          EXCEPT !.created_at = @ + 1],
      Module("no-payload", 2, <<fW>>, <<Gadget>>) }

ClassifyOptions ==
    { DefaultOptions,
      [DefaultOptions EXCEPT !.is_builtin = TRUE],
      [DefaultOptions EXCEPT !.is_builtin = TRUE,
                             !.schemas = [some |-> TRUE, names |-> {"widget"}]] }

BeginImportClassify ==
    BeginImport(ClassifyPackages, ClassifyOptions, {TRUE, FALSE}, {NONE})

\* A builtin schema that no package installed: Gadget, made by the builtin
\* migrations with SchemaVariant::new, has no package creation time.
MigrateBuiltin ==
    /\ imp.pc = "idle"
    /\ \A i \in DOMAIN db.schemas : db.schemas[i].name # Gadget.name
    /\ \E c \in {create_schema(db, Gadget)} :
       \E v \in {SchemaVariant_new(c.db, c.val, Gadget.variants[1].name, TRUE)} :
          db' = finalize(set_default_schema_variant_id(v.db, c.val, v.val), v.val)
    /\ last' = [op |-> "migrate", pre |-> db]
    /\ UNCHANGED <<thing_map, imp, txn>>

NextClassify ==
    \/ BeginImportClassify
    \/ MigrateBuiltin
    \/ FuncStep
    \/ UpgradeStep
    \/ CreateStep
    \/ Return
    \/ Rollback

SpecClassify == InitImport /\ [][NextClassify]_vars

\* import_change_set has just sorted the schema specs of the package: the
\* loop over the func specs has ended and no schema is imported yet
Classified == last.op = "func" /\ imp.pc \notin {"funcs", "error"}

\* The options.schemas filter lets the schema spec through
Chosen(options, schema_spec) ==
    options.schemas.some => to_lowercase(schema_spec.name) \in options.schemas.names

\* How often the schema spec is on the upgrade list, and on the create list
TimesOnUpgrade(schema_spec) ==
    Cardinality({k \in DOMAIN imp.to_upgrade :
                    imp.to_upgrade[k].schema_spec = schema_spec})

TimesOnCreate(schema_spec) ==
    Cardinality({k \in DOMAIN imp.to_create : imp.to_create[k] = schema_spec})

\* An installed schema of the name of the spec has a variant of the name of
\* one of its variant specs that is builtin and whose package creation time
\* is absent or a whole second or more before that of the package
HasOlderBuiltin(schema_spec) ==
    \E s \in DOMAIN db.schemas, v \in DOMAIN db.schema_variants :
        /\ ~db.schemas[s].deleted
        /\ db.schemas[s].name = schema_spec.name
        /\ ~db.schema_variants[v].deleted
        /\ db.schema_variants[v].schema_id = s
        /\ \E variant_spec \in Range(schema_spec.variants) :
              db.schema_variants[v].name = variant_spec.name
        /\ db.schema_variants[v].builtin
        /\ \/ db.schema_variants[v].pkg_created_at = NONE
           \/ imp.pkg.created_at - db.schema_variants[v].pkg_created_at
                 >= TicksPerSecond

\* C29: a schema spec the import takes up is on the upgrade list exactly when
\* the import is marked builtin, the override flag is set and an installed
\* schema of its name has a builtin variant of the name of one of its variant
\* specs whose package creation time is absent or earlier than that of the
\* package by a whole second or more; otherwise it is on the create list.
C29_UpgradeOrCreate ==
    Classified =>
        \A schema_spec \in Range(imp.cs.schemas) :
            Chosen(imp.options, schema_spec) =>
                LET upgrade == /\ imp.options.is_builtin
                               /\ imp.override
                               /\ HasOlderBuiltin(schema_spec)
                IN /\ TimesOnUpgrade(schema_spec) > 0 <=> upgrade
                   /\ TimesOnCreate(schema_spec) > 0 <=> ~upgrade

\* Widget, installed by the builtin package a second older, is on the upgrade
\* list and Gadget, not installed, is on the create list.
C29_Witness ==
    /\ Classified
    /\ imp.options.is_builtin
    /\ imp.override
    /\ \E k \in DOMAIN imp.to_upgrade :
          /\ imp.to_upgrade[k].schema_spec.name = "Widget"
          /\ db.schema_variants[imp.to_upgrade[k].variant_id].pkg_created_at
                = imp.pkg.created_at - TicksPerSecond
    /\ \E k \in DOMAIN imp.to_create : imp.to_create[k].name = "Gadget"

\* How many steps of the log imported a schema
RECURSIVE SchemaSteps(_)
SchemaSteps(log) ==
    IF log = <<>> THEN 0
    ELSE (IF Head(log) = "schema" THEN 1 ELSE 0) + SchemaSteps(Tail(log))

\* C30: a schema spec the options.schemas filter lets through is once on the
\* upgrade list or once on the create list, never on both and never twice; a
\* spec the filter excludes is on neither; and an import that returns has
\* imported a schema as many times as the filter lets specs through.
C30_ImportedOnce ==
    /\ Classified =>
          \A schema_spec \in Range(imp.cs.schemas) :
              TimesOnUpgrade(schema_spec) + TimesOnCreate(schema_spec)
                  = IF Chosen(imp.options, schema_spec) THEN 1 ELSE 0
    /\ last.op = "return" =>
          SchemaSteps(last.log)
              = Cardinality({k \in DOMAIN last.pkg.schemas :
                                Chosen(last.options, last.pkg.schemas[k])})

\* The import of a package of Widget and Gadget whose filter names widget
\* returned: Widget was upgraded, nothing was created.
C30_Witness ==
    /\ last.op = "return"
    /\ last.options.schemas.some
    /\ Len(last.pkg.schemas) = 2
    /\ SchemaSteps(last.log) = 1
    /\ Len(last.to_upgrade) = 1
    /\ last.to_upgrade[1].schema_spec.name = "Widget"

----------------------------------------------------------------------------
(* Components are matched through the ThingMap *)

\* What the ThingMap had for the component spec of the last step
ExistingComponent ==
    tm_get(last.pre_tm, last.change_set_pk, last.spec.unique_id)

\* The last step was import_component for a spec whose variant was found
ComponentImported ==
    /\ last.op = "import_component"
    /\ last.err # "ComponentMissingUpdateSchemaVariant"

\* C31: a component spec whose unique id the ThingMap has under the change
\* set as a Component makes no Component and keeps the entry; any other
\* component spec makes one new Component, whatever the store holds, and the
\* ThingMap has it under the unique id afterwards.
C31_MatchedByThingMap ==
    ComponentImported =>
        IF ExistingComponent.kind = "Component"
        THEN /\ Len(db.components) = Len(last.pre.components)
             /\ tm_get(thing_map, last.change_set_pk, last.spec.unique_id)
                   = ExistingComponent
        ELSE /\ Len(db.components) = Len(last.pre.components) + 1
             /\ tm_get(thing_map, last.change_set_pk, last.spec.unique_id)
                   = Thing("Component", Len(db.components))

\* The second spec of a unique id was imported and reused the component the
\* first spec of that unique id had made.
C31_Witness ==
    /\ ComponentImported
    /\ last.err = Ok
    /\ ExistingComponent.kind = "Component"
    /\ Len(db.components) = Len(last.pre.components)
    /\ db.components[ExistingComponent.id].name = last.spec.name

----------------------------------------------------------------------------
(* What import_component_attribute writes *)

\* The component the last import_component step resolved its spec to
ImportedComponent ==
    tm_get(thing_map, last.change_set_pk, last.spec.unique_id).id

\* The paths of those of the attributes, taken in order, that reach the
\* write: the variant has the prop, it is not under the resource in a change
\* set, the value fits its kind, the spec has no key, the parent (if any) was
\* written before, and the prop has an attribute value.
RECURSIVE WrittenBy(_, _, _, _, _)
WrittenBy(d, variant_id, change_set_pk, attributes, cached) ==
    IF attributes = <<>> THEN cached
    ELSE LET a == Head(attributes)
             prop == find_prop_by_path_opt(d, variant_id, a.path)
             expected == get_prop_kind_for_value(a.value)
             reaches ==
               /\ prop # NONE
               /\ ~(/\ change_set_pk # NONE
                    /\ is_descendant_of(d.props[prop].path, "root/resource"))
               /\ \/ expected = NoStr
                  \/ expected = (IF d.props[prop].kind \in {"Map", "Object"}
                                 THEN "Object" ELSE d.props[prop].kind)
                  \/ a.path = "root/resource/payload"
               /\ a.key = NoStr /\ a.index = NoIndex
               /\ a.parent_path # NoStr => a.parent_path \in cached
               /\ d.props[prop].has_value
         IN WrittenBy(d, variant_id, change_set_pk, Tail(attributes),
                      IF reaches THEN cached \cup {a.path} ELSE cached)

\* The attributes of the last component spec that reach the write
WrittenAttributes ==
    LET W == WrittenBy(db, db.components[ImportedComponent].schema_variant_id,
                       last.change_set_pk, last.spec.attributes, {})
    IN {k \in DOMAIN last.spec.attributes : last.spec.attributes[k].path \in W}

\* C32: when import_component ends without error or with MissingFuncUniqueId,
\* it fails with MissingFuncUniqueId exactly when an attribute that reaches
\* the write names a Func the ThingMap does not have; without error, a value
\* was written for the root only, and it is the implicit value of the root's
\* spec, or its value without one, and the prototype of every attribute that
\* reached the write has the Func its spec names.
C32_AttributeWrite ==
    (/\ ComponentImported
     /\ last.err \in {Ok, "MissingFuncUniqueId"}
     /\ last.spec.attributes # <<>>) =>
        LET c == db.components[ImportedComponent]
            attributes == last.spec.attributes
            func(k) == tm_get(thing_map, last.change_set_pk,
                              attributes[k].func_unique_id)
            root == attributes[1]
            expected == IF root.implicit_value # NoValue
                        THEN root.implicit_value ELSE root.value
        IN /\ last.err = "MissingFuncUniqueId"
                <=> \E k \in WrittenAttributes : func(k).kind # "Func"
           /\ last.err = Ok =>
                /\ DOMAIN c.values \subseteq {"root"}
                /\ 1 \in WrittenAttributes =>
                      /\ root.path = "root"
                      /\ c.values["root"].json = expected.json
                      /\ c.values["root"].data = expected.data
                /\ \A k \in WrittenAttributes :
                      c.funcs[attributes[k].path] = func(k).id

\* A component was imported whose root has no implicit value, so that its
\* value was written, and whose colour names a Func of its own.
C32_Witness ==
    /\ ComponentImported
    /\ last.err = Ok
    /\ last.spec.attributes[1].implicit_value = NoValue
    /\ db.components[ImportedComponent].values["root"]
          = last.spec.attributes[1].value
    /\ \E k \in WrittenAttributes :
          /\ last.spec.attributes[k].path # "root"
          /\ last.spec.attributes[k].func_unique_id # "uU"
          /\ db.components[ImportedComponent].funcs[last.spec.attributes[k].path]
                = func_by_name(db, "f:widget")

----------------------------------------------------------------------------
(* The arguments of a prototype after update_prototype *)

\* The arguments of the prototype at the path of attribute k of the last
\* component spec
ArgumentsAt(k) ==
    db.components[ImportedComponent].args[last.spec.attributes[k].path]

\* The name of the FuncArgument of an argument
ArgumentName(apa) == db.func_arguments[apa.func_argument_id].name

(* C33, as stated: after import_component ends without error, for every
   attribute of its spec that reached the write (and so update_prototype):
   with no inputs the prototype has no arguments; otherwise every argument
   has the name of an input of the spec, each input that resolves to an
   internal provider has exactly one argument, which points at that
   provider, and every argument refers to a FuncArgument of the function
   the prototype now has. *)
C33_Original ==
    (/\ ComponentImported
     /\ last.err = Ok) =>
        \A k \in WrittenAttributes :
            LET inputs == last.spec.attributes[k].inputs
                c == db.components[ImportedComponent]
                apas == ArgumentsAt(k)
                ip(i) == get_ip_for_input(db, c.schema_variant_id, inputs[i])
                of(i) == {a \in DOMAIN apas :
                             ArgumentName(apas[a]) = inputs[i].name}
            IN IF inputs = <<>> THEN apas = <<>>
               ELSE /\ \A a \in DOMAIN apas :
                         \E i \in DOMAIN inputs :
                             inputs[i].name = ArgumentName(apas[a])
                    /\ \A i \in DOMAIN inputs :
                         ip(i) # NONE =>
                            /\ Cardinality(of(i)) = 1
                            /\ \A a \in of(i) :
                                  apas[a].internal_provider_id = ip(i)
                    /\ \A a \in DOMAIN apas :
                         db.func_arguments[apas[a].func_argument_id].func_id
                            = c.funcs[last.spec.attributes[k].path]

----------------------------------------------------------------------------
(* A key or an index without a parent, and a path without a prop *)

\* The attributes of the last component spec with a key or an index and no
\* parent path
Parentless ==
    {k \in DOMAIN last.spec.attributes :
        /\ last.spec.attributes[k].parent_path = NoStr
        /\ \/ last.spec.attributes[k].key # NoStr
           \/ last.spec.attributes[k].index # NoIndex}

\* The attributes of the last component spec that import_component reached,
\* when it ended without error or at the first of Parentless
Reached ==
    {k \in DOMAIN last.spec.attributes : \A p \in Parentless : k < p}

\* C34: a component spec with an attribute that has a key or an index and no
\* parent path makes import_component, and the import, end with an error,
\* and AttributeValueWithKeyOrIndexButNoParent is the error of such a spec
\* only; the failing attribute and those after it leave no skip and no
\* prototype behind, whether or not the variant has a prop at the path.  An
\* attribute that import_component reaches and whose path is no prop of the
\* variant yields the skip MissingProp, no error, and nothing is written.
C34_KeyWithoutParent ==
    (/\ ComponentImported
     /\ last.spec.attributes # <<>>) =>
        LET attributes == last.spec.attributes
            c == db.components[ImportedComponent]
            absent(k) == find_prop_by_path_opt(db, c.schema_variant_id,
                                               attributes[k].path) = NONE
            skips(k) == {i \in DOMAIN last.val :
                            last.val[i].path = attributes[k].path}
        IN /\ Parentless # {} => last.err # Ok /\ imp.pc = "error"
           /\ last.err = "AttributeValueWithKeyOrIndexButNoParent" =>
                /\ Parentless # {}
                /\ imp.err = last.err
                /\ \A k \in DOMAIN attributes \ Reached :
                      /\ skips(k) = {}
                      /\ attributes[k].path \notin DOMAIN c.funcs
           /\ last.err \in {Ok, "AttributeValueWithKeyOrIndexButNoParent"} =>
                \A k \in Reached :
                    absent(k) =>
                       /\ \E i \in skips(k) : last.val[i].skip = "MissingProp"
                       /\ \A i \in skips(k) : ~last.val[i].wrote
                       /\ attributes[k].path \notin DOMAIN c.funcs
                       /\ attributes[k].path \notin DOMAIN c.values
           /\ \A i \in DOMAIN last.val :
                last.val[i].skip = "MissingProp" =>
                   /\ ~last.val[i].wrote
                   /\ find_prop_by_path_opt(db, c.schema_variant_id,
                                            last.val[i].path) = NONE

\* A component spec failed at an indexed attribute without a parent whose
\* path is no prop of the variant, after its colour had been written.
C34_Witness ==
    /\ ComponentImported
    /\ last.err = "AttributeValueWithKeyOrIndexButNoParent"
    /\ imp.pc = "error"
    /\ \E k \in Parentless :
          /\ last.spec.attributes[k].index # NoIndex
          /\ find_prop_by_path_opt(
                 db, db.components[ImportedComponent].schema_variant_id,
                 last.spec.attributes[k].path) = NONE
    /\ "root/domain/color" \in DOMAIN db.components[ImportedComponent].funcs

----------------------------------------------------------------------------
(* One prop per path of a variant *)

\* The props of the store d a variant has at a path
PropsAtPath(d, variant_id, path) ==
    {i \in DOMAIN d.props : /\ d.props[i].schema_variant_id = variant_id
                            /\ d.props[i].path = path}

\* The last step was import_schema, and so a walk of the prop tree of every
\* variant of its spec that it reached
PropTreeWalked == last.op = "create"

\* C35: no variant has two props at one path; and import_schema, which walks
\* the prop tree of the variants of its spec, leaves every prop there was at
\* its path and makes a prop only at a path its variant had no prop at.
C35_OnePropPerPath ==
    /\ \A i, j \in DOMAIN db.props :
          j \in PropsAtPath(db, db.props[i].schema_variant_id, db.props[i].path)
             => i = j
    /\ PropTreeWalked =>
          /\ Len(db.props) >= Len(last.pre.props)
          /\ \A i \in DOMAIN last.pre.props :
                /\ db.props[i].path = last.pre.props[i].path
                /\ db.props[i].schema_variant_id
                      = last.pre.props[i].schema_variant_id
          /\ \A i \in DOMAIN db.props \ DOMAIN last.pre.props :
                PropsAtPath(last.pre, db.props[i].schema_variant_id,
                            db.props[i].path) = {}

\* The prop tree of a variant that was installed before was walked again
\* with a spec prop it already had: the prop was reused and none was made.
C35_Witness ==
    /\ PropTreeWalked
    /\ last.err = Ok
    /\ Len(db.props) = Len(last.pre.props)
    /\ Len(db.schema_variants) = Len(last.pre.schema_variants)
    /\ \E v \in DOMAIN last.spec.variants : last.spec.variants[v].props # <<>>

----------------------------------------------------------------------------
(* The logs and the event of ActionPrototype::run *)

\* The ways to take the parts of the stream of the last run one after the
\* other so that no timestamp is followed by an earlier one and parts of
\* one timestamp follow each other as they were emitted
EmissionOrders ==
    LET n == Len(last.output_stream)
        at(order, i) == last.output_stream[order[i]]
    IN {order \in [1 .. n -> 1 .. n] :
          /\ \A i, j \in 1 .. n : order[i] = order[j] => i = j
          /\ \A i, j \in 1 .. n :
                i < j => \/ at(order, i).timestamp < at(order, j).timestamp
                         \/ /\ at(order, i).timestamp = at(order, j).timestamp
                            /\ order[i] < order[j]}

\* C36: when run returns a result, its logs are the messages of the parts of
\* the emitted stream, each part once, in an order in which no timestamp is
\* followed by an earlier one and parts of one timestamp follow each other
\* as they were emitted.
C36_LogsSorted ==
    (last.op = "run" /\ last.err = Ok /\ last.result # NoValue) =>
        /\ Len(last.logs) = Len(last.output_stream)
        /\ \E order \in EmissionOrders :
              \A i \in DOMAIN last.logs :
                  last.logs[i] = last.output_stream[order[i]].message

\* A run returned a result whose stream had a later part emitted before an
\* earlier one and two parts of one timestamp.
C36_Witness ==
    /\ last.op = "run"
    /\ last.err = Ok
    /\ last.result # NoValue
    /\ last.logs = <<"z", "y", "x", "w", "x">>
    /\ \E i, j \in DOMAIN last.output_stream :
          /\ i < j
          /\ last.output_stream[i].timestamp > last.output_stream[j].timestamp

\* C37: run hands over a resource-refreshed event exactly when its function
\* returned a value and set_resource reported a change, the run ending
\* without error; when the function was executed and returned no value, run
\* returns None without error, no component is touched, its resource and
\* needs-destroy flag included, and no event is handed over.
C37_EventIffChanged ==
    last.op = "run" =>
        /\ last.published => /\ last.err = Ok
                             /\ last.return_value # NoValue
                             /\ last.resource_changed
        /\ (last.err = Ok /\ last.return_value # NoValue /\ last.resource_changed)
              => last.published
        /\ (/\ last.component_id \in DOMAIN last.pre.components
            /\ func_visible(last.pre, last.pre.action_prototypes[last.id].func_id)
            /\ last.return_value = NoValue)
              => /\ last.err = Ok
                 /\ last.result = NoValue
                 /\ db.components = last.pre.components
                 /\ ~last.published

\* A run wrote the resource of a component that had another and handed the
\* event over.
C37_Witness ==
    /\ last.op = "run"
    /\ last.err = Ok
    /\ last.published
    /\ last.resource_changed
    /\ db.components[last.component_id].resource
          # last.pre.components[last.component_id].resource

----------------------------------------------------------------------------
(* set_kind_checked *)

\* Another visible prototype of the variant of the prototype of the last
\* call had the kind of the call before it
KindTaken ==
    \E p \in DOMAIN last.pre.action_prototypes :
        /\ p # last.id
        /\ ~last.pre.action_prototypes[p].deleted
        /\ last.pre.action_prototypes[p].schema_variant_id = last.schema_variant_id
        /\ last.pre.action_prototypes[p].kind = last.kind

\* C38: set_kind_checked(kind) fails with MultipleOfSameKind and leaves the
\* store, and so the kind of the prototype, as it was exactly when kind is
\* not Other and another prototype of the same variant has that kind;
\* otherwise it succeeds, the prototype has the kind and nothing else is
\* changed.
C38_SetKindChecked ==
    last.op = "set_kind_checked" =>
        IF last.kind # "Other" /\ KindTaken
        THEN /\ last.err = "MultipleOfSameKind"
             /\ db = last.pre
        ELSE /\ last.err = Ok
             /\ db = [last.pre EXCEPT !.action_prototypes[last.id].kind = last.kind]

\* A prototype of a kind other than Other was set to the kind it has, while
\* the variant has another prototype, and the call succeeded.
C38_Witness ==
    /\ last.op = "set_kind_checked"
    /\ last.err = Ok
    /\ last.kind # "Other"
    /\ last.pre.action_prototypes[last.id].kind = last.kind
    /\ Cardinality(find_for_context(db, last.schema_variant_id)) > 1

----------------------------------------------------------------------------
(* The change sets of a workspace backup *)

\* The name of the default change set of the package of the last step
DefaultName ==
    IF last.pkg.default_change_set = NoStr THEN "head"
    ELSE last.pkg.default_change_set

\* The change sets of the package that have the default name, and the
\* places of the others in the package
WithDefaultName ==
    {k \in DOMAIN last.pkg.change_sets : last.pkg.change_sets[k].name = DefaultName}

OtherPlaces == SeqOfSet(DOMAIN last.pkg.change_sets \ WithDefaultName)

\* The unique ids of the component specs of a change set of the package
ComponentIdsOf(k) ==
    {last.pkg.change_sets[k].components[i].unique_id :
        i \in DOMAIN last.pkg.change_sets[k].components}

\* The components the ThingMap has under a change set
ComponentsUnder(change_set_pk) ==
    {key \in DOMAIN thing_map :
        key[1] = change_set_pk /\ thing_map[key].kind = "Component"}

\* An import of a workspace backup that names its workspace has ended
BackupEnded ==
    /\ last.op \in {"return", "rollback"}
    /\ last.pkg.kind = "WorkspaceBackup"
    /\ last.pkg.workspace_pk # NoStr
    /\ last.pkg.workspace_name # NoStr

\* C39: an import of a workspace backup that returns has imported the first
\* change set of the default name into head and then the change sets of
\* other names, in package order, each into a change set made for it: the
\* store has one new change set per other change set, of its name; the
\* skip list has one entry per imported change set, the first for head and
\* the others for the new change sets in order; the components of each
\* imported change set are in the ThingMap under its change set and under
\* no other, no component was made twice, and those of an earlier change set
\* were made before those of a later one.  A backup without a change set of
\* the default name fails with WorkspaceBackupNoDefaultChangeSet, and only
\* such a one, before any step of an import of a change set.  And whenever
\* the import goes on to a further change set, that one is not of the
\* default name, and it is imported into a change set of its name that was
\* made just then.
C39_ChangeSetsInOrder ==
    /\ last.op = "change_set" =>
          /\ last.name # (IF imp.pkg.default_change_set = NoStr THEN "head"
                          ELSE imp.pkg.default_change_set)
          /\ Len(db.change_sets) = Len(last.pre.change_sets) + 1
          /\ imp.change_set_pk = Len(db.change_sets)
          /\ db.change_sets[imp.change_set_pk].name = last.name
    /\ BackupEnded =>
        LET first == CHOOSE k \in WithDefaultName : \A l \in WithDefaultName : k <= l
            made(k) == Len(last.pre.change_sets) + k
            place(n) == IF n = 0 THEN first ELSE OtherPlaces[n]
            pk(n) == IF n = 0 THEN NONE ELSE made(n)
            parts == 0 .. Len(OtherPlaces)
        IN /\ WithDefaultName = {} <=>
                (last.op = "rollback"
                    /\ last.err = "WorkspaceBackupNoDefaultChangeSet")
           /\ WithDefaultName = {} =>
                /\ last.log = <<>>
                /\ thing_map = EmptyThingMap
                /\ db = last.pre
           /\ last.op = "return" =>
                /\ Len(db.change_sets)
                      = Len(last.pre.change_sets) + Len(OtherPlaces)
                /\ \A n \in DOMAIN OtherPlaces :
                      db.change_sets[made(n)].name
                         = last.pkg.change_sets[OtherPlaces[n]].name
                /\ Len(last.skips) = 1 + Len(OtherPlaces)
                /\ \A n \in parts : last.skips[n + 1].change_set_pk = pk(n)
                /\ \A n \in parts :
                      {key[2] : key \in ComponentsUnder(pk(n))}
                         = ComponentIdsOf(place(n))
                /\ Len(db.components)
                      = Cardinality(UNION {ComponentsUnder(pk(n)) : n \in parts})
                /\ \A n, m \in parts :
                      n < m =>
                        \A a \in ComponentsUnder(pk(n)), b \in ComponentsUnder(pk(m)) :
                            thing_map[a].id < thing_map[b].id

\* A backup whose default change set is not the first of the package and
\* which has a second change set of the default name was imported: its two
\* change sets of other names went into two new change sets.
C39_Witness ==
    /\ BackupEnded
    /\ last.op = "return"
    /\ Len(OtherPlaces) = 2
    /\ Cardinality(WithDefaultName) = 2
    /\ 1 \notin WithDefaultName
    /\ Len(last.skips) = 3
    /\ ComponentsUnder(Len(db.change_sets)) # {}

----------------------------------------------------------------------------
(* The deleted state of components and edges against their specs *)

\* What the ThingMap had for the edge spec of the last step
ExistingEdge ==
    tm_get(last.pre_tm, last.change_set_pk, last.spec.unique_id)

\* The deleted state a row that was deleted or not has after it was
\* reconciled with a spec that is deleted or not
Reconciled(was_deleted, spec_deleted) ==
    IF was_deleted /\ ~spec_deleted THEN FALSE
    ELSE IF ~was_deleted /\ spec_deleted THEN TRUE
    ELSE was_deleted

(* C40, as stated: after import_component ends without error for a spec
   whose component was in the ThingMap, and after import_edge ends without
   error for a spec whose edge was in the ThingMap, the component or edge
   is restored when it was deleted and the spec is not, deleted when it was
   not and the spec is, and else as it was; an edge spec that is deleted and
   has no edge in the ThingMap makes no Edge, adds no entry to the ThingMap
   and returns no skip. *)
C40_Original ==
    /\ (/\ ComponentImported
        /\ last.err = Ok
        /\ ExistingComponent.kind = "Component") =>
          db.components[ExistingComponent.id].deleted
             = Reconciled(last.pre.components[ExistingComponent.id].deleted,
                          last.spec.deleted)
    /\ (/\ last.op = "import_edge"
        /\ last.err = Ok
        /\ ExistingEdge.kind = "Edge") =>
          db.edges[ExistingEdge.id].deleted
             = Reconciled(last.pre.edges[ExistingEdge.id].deleted,
                          last.spec.deleted)
    /\ (/\ last.op = "import_edge"
        /\ ExistingEdge.kind # "Edge"
        /\ last.spec.deleted) =>
          /\ last.err = Ok
          /\ last.val = NoStr
          /\ db.edges = last.pre.edges
          /\ thing_map = last.pre_tm

====
